---- MODULE Spec2Model ----
(***************************************************************************)
(* The tool-calling agent loop of Watch.ai, in its two hosts:              *)
(*   - the VS Code extension (WatchAIProvider, extension.ts), host "ext"   *)
(*   - the web client (ChatInterface.jsx, agentService.js) with the        *)
(*     standalone server (server index, POST /api/agent/chat and           *)
(*     POST /api/agent/approve), host "web".                               *)
(* The language model is the environment: every round it answers with a    *)
(* content flag and a batch of tool calls.                                 *)
(***************************************************************************)
EXTENDS Integers, Sequences, FiniteSets, TLC

\* ---------------------------------------------------------------- bounds
MaxLoops == 2      \* agent turns started (sendMessage / chat requests)
MaxBatch == 2      \* tool calls in one assistant message
MaxRequests == 3   \* model requests of all turns together (short profile)
MaxOdd == 1        \* rounds other than "one plain tool call that succeeds" / "final answer"
MaxLines == 2      \* lines of one SSE stream
MaxCuts == 2       \* chunk boundaries of one delivery of a stream
MaxUi == 2         \* messages from outside the running turn (mode change, stop,
                   \* reload, decision nobody waits for, lost or foreign request)
MaxDeltas == 3     \* tool-call deltas of one response
MaxCalls == 2      \* tool calls dispatched on one workspace
MaxEntries == 3    \* entries of the directory a listing starts from
MaxItems == 2      \* entries of the directory a search starts from
MaxHistory == 11   \* messages of the history a chat request supplies
MaxEdits == 3      \* edit_file calls and edit decisions of one session
MaxRounds == 3     \* rounds of one chat request whose stream is followed
MaxChats == 2      \* newChat messages of one session
MaxTurns == 2      \* sendMessage messages of a session with newChat

\* ------------------------------------------------------ program constants
maxLoops == 15       \* round cap, server and extension
RetryRounds == 10    \* `loopCount < 10` of the extension's corrective note
HistoryWindow == 10  \* `history.slice(-10)`
maxResults == 20     \* searchInFiles: `const maxResults = 20`

Hosts == {"ext", "web"}
Modes == {"secure", "full"}
\* a call of a known tool, a run-command call, a call of a name no handler
\* exists for, and a call whose arguments are not valid JSON
Kinds == {"tool", "cmd", "unknown", "bad"}
LoopIds == 1..MaxLoops

VARIABLES
    host,              \* which front end drives the loop
    securityMode,      \* WatchAIProvider._securityMode
    globalMode,        \* globalState 'watch-ai.securityMode'
    abortController,   \* WatchAIProvider._abortController (0 = undefined)
    aborted,           \* controllers whose abort() was called
    pendingApprovals,  \* WatchAIProvider._pendingApprovals: id -> waiting invocation
    transcript,        \* WatchAIProvider._currentTranscript
    clock,             \* Date.now()
    loops,             \* the agent loops (extension turns / server chat requests)
    nLoops,            \* loops started so far
    sessionStats,      \* server: sessionStats.toolCalls
    messages,          \* web client: messages state
    isLoading,         \* web client: isLoading state
    currentResponse,   \* web client: currentResponse is non-empty
    pendingApproval,   \* web client: pendingApproval state
    approveCalls,      \* web client: approveCommand calls awaiting the server
    approvalEvents,    \* observed: approval-required events emitted
    decisions,         \* observed: approval decisions received
    modeMsgs,          \* observed: values received with 'setSecurityMode'
    spawnLog,          \* observed: processes spawned for commands
    fuel,              \* model requests the environment still answers
    turnsLeft,         \* agent turns the user still starts
    oddLeft,           \* unusual rounds the model still produces
    uiLeft,            \* outside messages still to come
    stubborn,          \* the model repeats its usual answer (pathological model)
    sse,               \* the stream decoder: chunks still to read, buffer, output
    acc,               \* the tool-call deltas of one response and `toolCalls`
    ws                 \* the files the tools work on and what the tools did

vars == <<host, securityMode, globalMode, abortController, aborted,
          pendingApprovals, transcript, clock, loops, nLoops, sessionStats,
          messages, isLoading, currentResponse, pendingApproval, approveCalls,
          approvalEvents, decisions, modeMsgs, spawnLog, fuel, turnsLeft,
          oddLeft, uiLeft, stubborn, sse, acc, ws>>

extVars == <<securityMode, globalMode, abortController, aborted,
             pendingApprovals, transcript, clock>>
webVars == <<sessionStats, messages, isLoading, currentResponse,
             pendingApproval, approveCalls>>
logVars == <<approvalEvents, decisions, spawnLog>>

\* a decision message as it was received: `open` tells whether the request
\* it names was still waiting for its decision
Decision(id, choice, open) == [id |-> id, choice |-> choice, open |-> open]

\* ---------------------------------------------------------------- helpers
Range(s) == {s[i] : i \in 1..Len(s)}

Min(a, b) == IF a < b THEN a ELSE b

\* Array.prototype.slice(-n)
SliceLast(s, n) == SubSeq(s, Len(s) - Min(n, Len(s)) + 1, Len(s))

Msg(role, text, calls, id, err) ==
    [role |-> role, text |-> text, calls |-> calls, id |-> id, err |-> err]

NoApproval == [id |-> 0, command |-> 0]

\* ids the model gives to its tool calls: unique per loop, round and index
CallId(l, round, i) == l * 1000 + round * 10 + i

\* the command of the i-th call of a batch
CommandOf(i) == i

\* one agent loop: the locals of _runAgentLoop / of the chat handler, and
\* what was observed of it (sent, doneEvents, approvalSeen, answered, lastN,
\* plain, rejected, rejectedAt, errorEvents, stoppedAt, discard, stats: the
\* stat entries of its own tool calls, doneStats: the stats of its 'done'
\* event); other: the request comes from another client than the web client
IdleLoop ==
    [pc |-> "idle", outcome |-> "", loopCount |-> 0, isDone |-> FALSE,
     sig |-> 0, msgs |-> <<>>, calls |-> <<>>, tasks |-> <<>>,
     sent |-> 0, doneEvents |-> 0, approvalSeen |-> FALSE,
     answered |-> 0, lastN |-> 0, plain |-> TRUE, charged |-> FALSE,
     usual |-> "none", rejected |-> 0, rejectedAt |-> -1,
     errorEvents |-> 0, stoppedAt |-> -1, discard |-> {},
     other |-> FALSE, stats |-> <<>>, doneStats |-> <<>>]

\* the model's answer to one request
Answers == [content : BOOLEAN, kinds : UNION {[1..n -> Kinds] : n \in 0..MaxBatch}]
FinalAnswer == [content |-> TRUE, kinds |-> <<>>]
PlainCall == [content |-> FALSE, kinds |-> <<"tool">>]
Cost(ans) == IF ans \in {FinalAnswer, PlainCall} THEN 0 ELSE 1
UsualOf(ans) == IF ans = FinalAnswer THEN "final"
                ELSE IF ans = PlainCall THEN "plain" ELSE "none"
\* a pathological model keeps to the usual answer it gave before
Allowed(r, ans) ==
    stubborn /\ Cost(ans) = 0 => r.usual \in {"none", UsualOf(ans)}

\* toolCalls assembled from the stream of one round
BatchOf(l, round, ans) ==
    [i \in 1..Len(ans.kinds) |->
        [id |-> CallId(l, round, i), kind |-> ans.kinds[i], cmd |-> CommandOf(i)]]

CallIds(calls) == [i \in 1..Len(calls) |-> calls[i].id]

\* ------------------------------------------------------- the stream decoder
\* The characters of a stream: "n" is the line feed, "d" the prefix `data: `,
\* "a" a JSON payload with a content delta, "t" a JSON payload with a
\* tool-call delta, "X" the text [DONE], "j" a payload that is not JSON.
SseStart == [buffer |-> <<>>, content |-> <<>>, tools |-> <<>>]
SseIdle == [chunks |-> <<>>, whole |-> <<>>, delivery |-> <<>>, st |-> SseStart,
            on |-> FALSE]

\* String.prototype.split("\n")
RECURSIVE SplitLines(_)
SplitLines(s) ==
    IF \E i \in 1..Len(s) : s[i] = "n"
    THEN LET i == CHOOSE k \in 1..Len(s) :
                     s[k] = "n" /\ \A j \in 1..(k - 1) : s[j] # "n"
         IN  <<SubSeq(s, 1, i - 1)>> \o SplitLines(SubSeq(s, i + 1, Len(s)))
    ELSE <<s>>

\* the delta of one data line is accumulated; JSON.parse throws on a payload
\* that is not JSON, the catch around it leaves the state as it is
Accumulate(st, payload) ==
    IF payload = <<"a">> THEN [st EXCEPT !.content = Append(@, "a")]
    ELSE IF payload = <<"t">> THEN [st EXCEPT !.tools = Append(@, "t")]
    ELSE st

\* extension: `for (const line of lines)`: lines not starting with `data: `
\* are skipped, [DONE] breaks the for loop, a JSON parse error is caught
RECURSIVE ExtLines(_, _)
ExtLines(st, lines) ==
    IF lines = <<>> THEN st
    ELSE LET line == Head(lines)
         IN  IF line = <<>> \/ line[1] # "d" THEN ExtLines(st, Tail(lines))
             ELSE IF Tail(line) = <<"X">> THEN st
             ELSE ExtLines(Accumulate(st, Tail(line)), Tail(lines))

\* web client: `for (const line of lines)`: JSON.parse(line.slice(6)), onChunk
RECURSIVE WebLines(_, _)
WebLines(st, lines) ==
    IF lines = <<>> THEN st
    ELSE LET line == Head(lines)
         IN  IF line = <<>> \/ line[1] # "d" THEN WebLines(st, Tail(lines))
             ELSE WebLines(Accumulate(st, Tail(line)), Tail(lines))

\* the text JSON.parse accepts
ValidJson(payload) == payload \in {<<"a">>, <<"t">>}

\* the lines before the first data line JSON.parse throws on
RECURSIVE UpToThrow(_, _)
UpToThrow(h, lines) ==
    IF lines = <<>> THEN <<>>
    ELSE LET line == Head(lines)
         IN  IF /\ line # <<>> /\ line[1] = "d" /\ ~ValidJson(Tail(line))
                /\ (h = "ext" => Tail(line) # <<"X">>)
             THEN <<>>
             ELSE <<line>> \o UpToThrow(h, Tail(lines))

\* one reader.read() with no try around JSON.parse: the exception leaves the
\* `for (const line of lines)` loop
ReadChunkThrowing(h, st, chunk) ==
    LET lines == SplitLines(st.buffer \o chunk)
        kept == [st EXCEPT !.buffer = lines[Len(lines)]]
        full == UpToThrow(h, SubSeq(lines, 1, Len(lines) - 1))
    IN  IF h = "ext" THEN ExtLines(kept, full) ELSE WebLines(kept, full)

\* one reader.read(): buffer += chunk; lines = buffer.split("\n");
\* buffer = lines.pop(); the complete lines are handled
ReadChunk(h, st, chunk) ==
    LET lines == SplitLines(st.buffer \o chunk)
        kept == [st EXCEPT !.buffer = lines[Len(lines)]]
        full == SubSeq(lines, 1, Len(lines) - 1)
    IN  IF h = "ext" THEN ExtLines(kept, full) ELSE WebLines(kept, full)

\* the lines a stream is made of
LineBodies == {<<"d", "a">>, <<"d", "t">>, <<"d", "X">>, <<"d", "j">>, <<"a">>}

RECURSIVE Flatten(_)
Flatten(ls) == IF ls = <<>> THEN <<>> ELSE Head(ls) \o <<"n">> \o Flatten(Tail(ls))

Streams == {Flatten(ls) : ls \in UNION {[1..k -> LineBodies] : k \in 1..MaxLines}}

\* the stream cut after each position of `cuts`
RECURSIVE Pieces(_, _, _)
Pieces(s, cuts, from) ==
    IF \E c \in cuts : c >= from
    THEN LET c == CHOOSE x \in cuts : x >= from /\ \A y \in cuts : y >= from => x <= y
         IN  <<SubSeq(s, from, c)>> \o Pieces(s, cuts, c + 1)
    ELSE <<SubSeq(s, from, Len(s))>>

Deliveries(s) ==
    {Pieces(s, cuts, 1) : cuts \in {c \in SUBSET (1..(Len(s) - 1)) : Cardinality(c) <= MaxCuts}}

\* ------------------------------------------- accumulating tool-call deltas
\* `toolCalls` is a sparse array: an index holds a call once a delta with
\* that index has arrived.  A missing id, name or arguments fragment is the
\* empty string.
Indices == 0..1
NoCall == [held |-> FALSE, id |-> "", name |-> <<>>, arguments |-> <<>>]
AccIdle == [todo |-> <<>>, seen |-> <<>>, toolCalls |-> [i \in Indices |-> NoCall],
            on |-> FALSE]

\* the deltas a provider sends: an id with the start of the name, a piece of
\* the name with a piece of the arguments, a second id with more arguments,
\* arguments alone, an id alone
DeltaShapes ==
    {[id |-> "x", name |-> <<"r">>, arguments |-> <<"p">>],
     [id |-> "", name |-> <<"w">>, arguments |-> <<"p">>],
     [id |-> "y", name |-> <<>>, arguments |-> <<"q">>],
     [id |-> "", name |-> <<>>, arguments |-> <<"q">>],
     [id |-> "x", name |-> <<>>, arguments |-> <<>>]}

Deltas ==
    {[index |-> i, id |-> d.id, name |-> d.name, arguments |-> d.arguments] :
        i \in Indices, d \in DeltaShapes}

\* the body of `delta.tool_calls.forEach(tc => ...)`, with `=` where the
\* code has `+=`
AccumulateCallAssign(toolCalls, tc) ==
    LET idx == tc.index
        was == IF toolCalls[idx].held THEN toolCalls[idx]
               ELSE [held |-> TRUE, id |-> IF host = "ext" THEN tc.id ELSE "",
                     name |-> <<>>, arguments |-> <<>>]
    IN  [toolCalls EXCEPT ![idx] =
            [held |-> TRUE,
             id |-> IF tc.id # "" THEN tc.id ELSE was.id,
             name |-> IF tc.name # <<>> THEN tc.name ELSE was.name,
             arguments |-> IF tc.arguments # <<>> THEN tc.arguments
                           ELSE was.arguments]]

\* the body of `delta.tool_calls.forEach(tc => ...)`: the slot is created
\* on the first delta of an index, a non-empty id replaces the id, name and
\* arguments are appended
AccumulateCall(toolCalls, tc) ==
    LET idx == tc.index
        was == IF toolCalls[idx].held THEN toolCalls[idx]
               ELSE [held |-> TRUE, id |-> IF host = "ext" THEN tc.id ELSE "",
                     name |-> <<>>, arguments |-> <<>>]
    IN  [toolCalls EXCEPT ![idx] =
            [held |-> TRUE,
             id |-> IF tc.id # "" THEN tc.id ELSE was.id,
             name |-> IF tc.name # <<>> THEN was.name \o tc.name ELSE was.name,
             arguments |-> IF tc.arguments # <<>> THEN was.arguments \o tc.arguments
                           ELSE was.arguments]]

\* ------------------------------------------------- the file tools
\* Texts are sequences of characters: "a", "b", "c" letters, "n" the line
\* feed, "$" and "&" the characters String.prototype.replace gives a meaning
\* to in a replacement, "u" the text `undefined`.  A path argument is
\* absolute or relative and is a sequence of names; the workspace folder is
\* /w; Missing is a field the arguments object does not have.
Root == <<"w">>
Absent == <<"absent">>
Missing == <<"undefined">>
\* the path of an arguments object without the path field
NoPath == [abs |-> FALSE, parts |-> Missing]

\* the files of the model: /w/a, /w/d/b and, outside the workspace, /o
Locs == {<<"w", "a">>, <<"w", "d", "b">>, <<"o">>}
\* the directories there always are, and the one that may be missing
FixedDirs == {<<>>, Root}
Dirs == {<<"w", "d">>}

PathA == [abs |-> FALSE, parts |-> <<"a">>]
PathDB == [abs |-> FALSE, parts |-> <<"d", "b">>]
PathUp == [abs |-> FALSE, parts |-> <<"..", "o">>]
PathAbs == [abs |-> TRUE, parts |-> <<"o">>]
PathD == [abs |-> FALSE, parts |-> <<"d">>]

\* the tools have not been used
WsIdle == [on |-> FALSE]

\* String(x): an absent argument reads `undefined`
Str(x) == IF x = Missing THEN <<"u">> ELSE x

\* content.split('\n').length
Lines(text) == Len(SplitLines(text))

\* String.prototype.includes
Includes(content, old) ==
    \E i \in 1..(Len(content) - Len(old) + 1) :
        SubSeq(content, i, i + Len(old) - 1) = old

\* String.prototype.indexOf, for a text that occurs
IndexOf(content, old) ==
    CHOOSE i \in 1..(Len(content) - Len(old) + 1) :
        /\ SubSeq(content, i, i + Len(old) - 1) = old
        /\ \A j \in 1..(i - 1) : SubSeq(content, j, j + Len(old) - 1) # old

\* the replacement text of String.prototype.replace: `$$` stands for `$`,
\* `$&` for the matched text, any other `$` for itself
RECURSIVE Expand(_, _)
Expand(new, match) ==
    IF new = <<>> THEN <<>>
    ELSE IF Len(new) >= 2 /\ new[1] = "$" /\ new[2] = "$"
    THEN <<"$">> \o Expand(SubSeq(new, 3, Len(new)), match)
    ELSE IF Len(new) >= 2 /\ new[1] = "$" /\ new[2] = "&"
    THEN match \o Expand(SubSeq(new, 3, Len(new)), match)
    ELSE <<Head(new)>> \o Expand(Tail(new), match)

\* content.replaceAll(old, new), for a non-empty old text
RECURSIVE ReplaceEvery(_, _, _)
ReplaceEvery(content, old, new) ==
    IF old = <<>> \/ ~Includes(content, old) THEN content
    ELSE LET i == IndexOf(content, old)
         IN  SubSeq(content, 1, i - 1) \o Expand(new, old)
                \o ReplaceEvery(SubSeq(content, i + Len(old), Len(content)), old, new)

\* content.replace(old, new) with a string pattern: the first occurrence
Replace(content, old, new) ==
    IF ~Includes(content, old) THEN content
    ELSE LET i == IndexOf(content, old)
         IN  SubSeq(content, 1, i - 1) \o Expand(new, old)
                \o SubSeq(content, i + Len(old), Len(content))

\* path.resolve / the kernel: `..` steps to the parent
RECURSIVE Norm(_, _)
Norm(done, rest) ==
    IF rest = <<>> THEN done
    ELSE IF Head(rest) = ".."
    THEN Norm(IF done = <<>> THEN <<>> ELSE SubSeq(done, 1, Len(done) - 1), Tail(rest))
    ELSE Norm(Append(done, Head(rest)), Tail(rest))

\* path.resolve(workspaceFolders[0].uri.fsPath, fpath); the server's file
\* system calls resolve a relative path against the working directory
Resolve(p) == Norm(<<>>, IF p.abs THEN p.parts ELSE Root \o p.parts)

DirOf(loc) == SubSeq(loc, 1, Len(loc) - 1)
DirExists(w, d) == d \in FixedDirs \cup w.dirs
FileExists(w, loc) == loc \in Locs /\ DirExists(w, DirOf(loc)) /\ w.files[loc] # Absent
Under(loc, d) == Len(loc) > Len(d) /\ SubSeq(loc, 1, Len(d)) = d

\* what a handler leaves behind: its result and the places it went to
Returns(w, result, touched) == [w EXCEPT !.result = result, !.touched = touched]

\* fs.writeFileSync / workspace.fs.writeFile
WriteAt(w, loc, text) ==
    [w EXCEPT !.files[loc] = text, !.writes = @ + 1]

\* server readFile
SrvReadFile(w, args) ==
    IF args.path = NoPath THEN Returns(w, "error", {})
    ELSE LET loc == Resolve(args.path)
         IN  IF ~FileExists(w, loc) THEN Returns(w, "error", {loc})
             ELSE Returns([w EXCEPT !.filesRead = @ \cup {args.path}],
                          "success", {loc})

\* server writeFile: the directory is made before `content.split` runs
SrvWriteFile(w, args) ==
    IF args.path = NoPath THEN Returns(w, "error", {})
    ELSE LET loc == Resolve(args.path)
             dir == DirOf(loc)
             w1 == IF DirExists(w, dir) THEN w
                   ELSE [w EXCEPT !.dirs = @ \cup {dir}]
         IN  IF args.content = Missing THEN Returns(w1, "error", {dir})
             ELSE IF loc \notin Locs THEN Returns(w1, "error", {dir, loc})
             ELSE Returns([WriteAt(w1, loc, args.content) EXCEPT
                              !.linesWritten = @ + Lines(args.content),
                              !.filesModified = @ \cup {args.path}],
                          "success", {dir, loc})

\* server editFile that writes whether or not the old text occurs
SrvEditFileUnchecked(w, args) ==
    IF args.path = NoPath THEN Returns(w, "error", {})
    ELSE LET loc == Resolve(args.path)
         IN  IF ~FileExists(w, loc) THEN Returns(w, "error", {loc})
             ELSE LET content == w.files[loc]
                      newContent == Replace(content, Str(args.oldText), Str(args.newText))
                      w1 == [WriteAt(w, loc, newContent) EXCEPT
                                !.filesModified = @ \cup {args.path}]
                  IN  IF args.newText = Missing THEN Returns(w1, "error", {loc})
                      ELSE LET w2 == [w1 EXCEPT !.linesWritten = @ + Lines(args.newText)]
                           IN  IF args.oldText = Missing THEN Returns(w2, "error", {loc})
                               ELSE Returns(w2, "success", {loc})

\* server editFile: `newText.split` runs after the file is written, and
\* `oldText.split` after the statistics are updated
SrvEditFile(w, args) ==
    IF args.path = NoPath THEN Returns(w, "error", {})
    ELSE LET loc == Resolve(args.path)
         IN  IF ~FileExists(w, loc) THEN Returns(w, "error", {loc})
             ELSE LET content == w.files[loc]
                  IN  IF ~Includes(content, Str(args.oldText))
                      THEN Returns(w, "error", {loc})
                      ELSE LET newContent == Replace(content, Str(args.oldText),
                                                     Str(args.newText))
                               w1 == [WriteAt(w, loc, newContent) EXCEPT
                                         !.filesModified = @ \cup {args.path}]
                           IN  IF args.newText = Missing THEN Returns(w1, "error", {loc})
                               ELSE LET w2 == [w1 EXCEPT
                                                 !.linesWritten = @ + Lines(args.newText)]
                                    IN  IF args.oldText = Missing
                                        THEN Returns(w2, "error", {loc})
                                        ELSE Returns(w2, "success", {loc})

\* server deleteFile: a directory goes with everything below it
SrvDeleteFile(w, args) ==
    IF args.path = NoPath THEN Returns(w, "error", {})
    ELSE LET loc == Resolve(args.path)
         IN  IF loc \in w.dirs
             THEN Returns([w EXCEPT !.dirs = @ \ {loc},
                                    !.files = [f \in Locs |->
                                                 IF Under(f, loc) THEN Absent ELSE @[f]]],
                          "success", {loc})
             ELSE IF FileExists(w, loc)
             THEN Returns([w EXCEPT !.files[loc] = Absent], "success", {loc})
             ELSE Returns(w, "error", {loc})

\* toolHandlers[toolName](args)
SrvHandler(name, w, args) ==
    CASE name = "readFile" -> SrvReadFile(w, args)
      [] name = "writeFile" -> SrvWriteFile(w, args)
      [] name = "editFile" -> SrvEditFile(w, args)
      [] name = "deleteFile" -> SrvDeleteFile(w, args)

\* extension _readFile
ExtReadFile(w, args) ==
    IF args.path = NoPath THEN Returns(w, "error", {})
    ELSE LET loc == Resolve(args.path)
         IN  IF ~FileExists(w, loc) THEN Returns(w, "error", {loc})
             ELSE Returns(w, "success", {loc})

\* extension _searchReplace
ExtSearchReplace(w, args) ==
    IF args.path = NoPath THEN Returns(w, "error", {})
    ELSE LET loc == Resolve(args.path)
         IN  IF ~FileExists(w, loc) THEN Returns(w, "error", {loc})
             ELSE LET content == w.files[loc]
                  IN  IF ~Includes(content, Str(args.oldText))
                      THEN Returns(w, "error", {loc})
                      ELSE Returns(WriteAt(w, loc, Replace(content, Str(args.oldText),
                                                           Str(args.newText))),
                                   "success", {loc})

\* extension _deleteFile: workspace.fs.delete without `recursive`
ExtDeleteFile(w, args) ==
    IF args.path = NoPath THEN Returns(w, "error", {})
    ELSE LET loc == Resolve(args.path)
         IN  IF loc \in w.dirs
             THEN IF \E f \in Locs : Under(f, loc) /\ w.files[f] # Absent
                  THEN Returns(w, "error", {loc})
                  ELSE Returns([w EXCEPT !.dirs = @ \ {loc}], "success", {loc})
             ELSE IF FileExists(w, loc)
             THEN Returns([w EXCEPT !.files[loc] = Absent], "success", {loc})
             ELSE Returns(w, "error", {loc})

\* the `switch (tc.function.name)` of the extension, inside its try; the
\* arguments target_file / file_path, old_string, new_string are the fields
\* path, oldText, newText
ExtHandler(name, w, args) ==
    CASE name = "read_file" -> ExtReadFile(w, args)
      [] name = "search_replace" -> ExtSearchReplace(w, args)
      [] name = "delete_file" -> ExtDeleteFile(w, args)

\* the calls a model makes: the arguments object has every field or lacks
\* one the schema requires
Olds == {<<"a">>, <<"a", "a">>, <<"c">>, Missing}
News == {<<"c">>, <<"a", "n", "a">>, <<"$", "&">>, <<"$", "$">>, Missing}
ReadCalls ==
    {[name |-> "readFile", path |-> p] : p \in {PathA, PathDB, PathUp, PathAbs, NoPath}}
WriteCalls ==
    {[name |-> "writeFile", path |-> p, content |-> c] :
        p \in {PathA, PathDB, NoPath}, c \in {<<"b", "n", "b">>, Missing}}
EditCalls ==
    {[name |-> "editFile", path |-> PathA, oldText |-> o, newText |-> n] :
        o \in Olds, n \in News}
      \cup {[name |-> "editFile", path |-> p, oldText |-> <<"a">>, newText |-> <<"c">>] :
              p \in {PathDB, PathUp, NoPath}}
DeleteCalls ==
    {[name |-> "deleteFile", path |-> p] : p \in {PathA, PathD, PathUp, NoPath}}
SrvCalls == ReadCalls \cup WriteCalls \cup EditCalls \cup DeleteCalls

\* the extension's name of a tool
ExtName(name) ==
    CASE name = "readFile" -> "read_file"
      [] name = "editFile" -> "search_replace"
      [] name = "deleteFile" -> "delete_file"

ExtCalls == {[c EXCEPT !.name = ExtName(c.name)] :
                c \in ReadCalls \cup EditCalls \cup DeleteCalls}

\* the fields the schema of a tool requires
Required(name) ==
    CASE name = "readFile" -> {"path"}
      [] name = "writeFile" -> {"path", "content"}
      [] name = "editFile" -> {"path", "oldText", "newText"}
      [] name = "deleteFile" -> {"path"}
      [] name = "read_file" -> {"path"}
      [] name = "search_replace" -> {"path", "oldText", "newText"}
      [] name = "delete_file" -> {"path"}

\* the fields of a call the arguments object lacks
Lacking(c) ==
    {f \in Required(c.name) : IF f = "path" THEN c.path = NoPath ELSE c[f] = Missing}

\* the workspaces a call can find: /w/a with some text or absent, /w/d
\* present or not, /o outside
InitTexts == {<<"a", "b", "a">>, <<"a", "a", "a">>, <<"u", "b">>, Absent}

\* how much the environment does in one behaviour: a short conversation
\* with every kind of message, or one long uninterrupted turn
Profiles ==
    {[turns |-> 1, fuel |-> MaxRequests, odd |-> MaxOdd, ui |-> MaxUi,
      stubborn |-> FALSE],
     [turns |-> MaxLoops, fuel |-> MaxLoops, odd |-> MaxOdd, ui |-> 0,
      stubborn |-> FALSE],
     [turns |-> 1, fuel |-> maxLoops + 1, odd |-> 1, ui |-> 0,
      stubborn |-> TRUE]}

\* the state after construction, before any message
Boot ==
    /\ host \in Hosts
    /\ securityMode = "secure"
    /\ globalMode = "secure"
    /\ abortController = 0
    /\ aborted = {}
    /\ pendingApprovals = <<>>
    /\ transcript = <<>>
    /\ clock = 1
    /\ loops = [l \in LoopIds |-> IdleLoop]
    /\ nLoops = 0
    /\ sessionStats = <<>>
    /\ messages = <<>>
    /\ isLoading = FALSE
    /\ currentResponse = FALSE
    /\ pendingApproval = NoApproval
    /\ approveCalls = {}
    /\ approvalEvents = {}
    /\ decisions = {}
    /\ modeMsgs = {}
    /\ spawnLog = <<>>

\* nothing but the response under study happens
Bench ==
    /\ Boot
    /\ fuel = 0 /\ turnsLeft = 0 /\ oddLeft = 0 /\ uiLeft = 0 /\ stubborn = FALSE

Init ==
    /\ Boot
    /\ sse = SseIdle
    /\ acc = AccIdle
    /\ ws = WsIdle
    /\ \E p \in Profiles :
          /\ turnsLeft = p.turns
          /\ fuel = p.fuel
          /\ oddLeft = p.odd
          /\ uiLeft = p.ui
          /\ stubborn = p.stubborn

\* a response body arrives: some stream in some delivery
SseInit ==
    /\ Boot
    /\ fuel = 0 /\ turnsLeft = 0 /\ oddLeft = 0 /\ uiLeft = 0 /\ stubborn = FALSE
    /\ acc = AccIdle
    /\ ws = WsIdle
    /\ \E s \in Streams : \E chunks \in Deliveries(s) :
          sse = [chunks |-> chunks, whole |-> s, delivery |-> chunks,
                 st |-> SseStart, on |-> TRUE]

\* reader.read() returns the next chunk
SseRead ==
    /\ sse.chunks # <<>>
    /\ sse' = [sse EXCEPT !.chunks = Tail(@),
                          !.st = ReadChunk(host, sse.st, Head(sse.chunks))]
    /\ UNCHANGED <<host, stubborn, acc, ws, modeMsgs, loops, nLoops, fuel, turnsLeft,
                   oddLeft, uiLeft>>
    /\ UNCHANGED logVars
    /\ UNCHANGED extVars
    /\ UNCHANGED webVars

SseNext == SseRead

\* ------------------------------------------------------ tool-call deltas
\* a response arrives: some sequence of tool-call deltas
DeltaInit ==
    /\ Bench
    /\ sse = SseIdle
    /\ ws = WsIdle
    /\ \E k \in 0..MaxDeltas : \E ds \in [1..k -> Deltas] :
          acc = [todo |-> ds, seen |-> <<>>,
                 toolCalls |-> [i \in Indices |-> NoCall], on |-> TRUE]

\* the next delta of the stream is accumulated
DeltaStep ==
    /\ acc.todo # <<>>
    /\ acc' = [acc EXCEPT !.todo = Tail(@),
                          !.seen = Append(@, Head(acc.todo)),
                          !.toolCalls = AccumulateCall(@, Head(acc.todo))]
    /\ UNCHANGED <<host, stubborn, sse, ws, modeMsgs, loops, nLoops, fuel,
                   turnsLeft, oddLeft, uiLeft>>
    /\ UNCHANGED logVars
    /\ UNCHANGED extVars
    /\ UNCHANGED webVars

DeltaNext == DeltaStep

\* ------------------------------------------------- the tools at work
\* a workspace and the tool calls made on it
ToolInit ==
    /\ Bench
    /\ sse = SseIdle
    /\ acc = AccIdle
    /\ \E text \in InitTexts : \E dirs \in SUBSET Dirs :
          ws = [on |-> TRUE,
                files |-> [f \in Locs |->
                             IF f = <<"w", "a">> THEN text
                             ELSE IF f = <<"o">> THEN <<"a">> ELSE Absent],
                dirs |-> dirs,
                linesWritten |-> 0, filesModified |-> {}, filesRead |-> {},
                writes |-> 0, result |-> "none", touched |-> {},
                calls |-> 0, call |-> [name |-> "none"],
                before |-> [f \in Locs |-> Absent], dirsBefore |-> {},
                writesBefore |-> 0, linesBefore |-> 0, modifiedBefore |-> {}]

\* the state a call starts from
Called(w, c) ==
    [w EXCEPT !.calls = @ + 1, !.call = c, !.before = w.files,
              !.dirsBefore = w.dirs, !.writesBefore = w.writes,
              !.linesBefore = w.linesWritten, !.modifiedBefore = w.filesModified]

\* server: one pass of `for (const toolCall of validCalls)` for a file tool:
\* the handler runs and its outcome is pushed to sessionStats.toolCalls
SrvToolCall ==
    /\ host = "web"
    /\ ws.on
    /\ ws.calls < MaxCalls
    /\ \E c \in SrvCalls :
          /\ ws' = SrvHandler(c.name, Called(ws, c), c)
          /\ sessionStats' =
                Append(sessionStats,
                       [name |-> c.name,
                        status |-> IF ws'.result = "success" THEN "success"
                                   ELSE "error"])
    /\ UNCHANGED <<host, stubborn, sse, acc, modeMsgs, loops, nLoops, fuel,
                   turnsLeft, oddLeft, uiLeft>>
    /\ UNCHANGED logVars
    /\ UNCHANGED extVars
    /\ UNCHANGED <<messages, isLoading, currentResponse, pendingApproval,
                   approveCalls>>

\* extension: one callback of `assistantMessage.tool_calls.map` for a file
\* tool: an exception of the tool becomes an error result
ExtToolCall ==
    /\ host = "ext"
    /\ ws.on
    /\ ws.calls < MaxCalls
    /\ \E c \in ExtCalls : ws' = ExtHandler(c.name, Called(ws, c), c)
    /\ UNCHANGED <<host, stubborn, sse, acc, modeMsgs, loops, nLoops, fuel,
                   turnsLeft, oddLeft, uiLeft>>
    /\ UNCHANGED logVars
    /\ UNCHANGED extVars
    /\ UNCHANGED webVars

ToolNext ==
    \/ SrvToolCall
    \/ ExtToolCall

\* ------------------------------------------------- listing a directory
\* A tree gives, for each directory, the names readdir returns, in the order
\* it returns them.  The directory listed is <<>>; it can hold the folder A,
\* which can hold B, which can hold C.
Folders == {"A", "B", "C", "node_modules"}
\* a dangling link: statSync throws on it
Broken == {"x.lnk"}
ListIgnore == {"node_modules", ".git", ".next", "dist", "build", ".cache"}
\* the order of String.prototype.localeCompare on the names of the model
LocaleOrder == <<"A", "a.txt", "B", "b.txt", "C", "node_modules", "x.lnk">>
LocaleRank(name) == CHOOSE i \in 1..Len(LocaleOrder) : LocaleOrder[i] = name

\* the sequences without repetition of at most k of the names
Arrangements(names, k) ==
    {q \in UNION {[1..n -> names] : n \in 0..k} :
        \A i, j \in 1..Len(q) : i # j => q[i] # q[j]}

Trees ==
    {[d \in {<<>>, <<"A">>, <<"A", "B">>, <<"A", "B", "C">>} |->
        IF d = <<>> THEN top
        ELSE IF d = <<"A">> THEN inA
        ELSE IF d = <<"A", "B">> THEN inB ELSE inC] :
        top \in Arrangements({"A", "a.txt", "b.txt", "node_modules"}, MaxEntries),
        inA \in Arrangements({"B", "node_modules", "x.lnk"}, 3),
        inB \in Arrangements({"C", "b.txt"}, 2),
        inC \in Arrangements({"a.txt"}, 1)}

TypeOf(name) == IF name \in Folders THEN "folder" ELSE "file"

\* the comparator of `result.sort(...)` is negative
SortsBefore(a, b) ==
    IF a.type = b.type THEN LocaleRank(a.name) < LocaleRank(b.name)
    ELSE a.type = "folder"

\* Array.prototype.sort with that comparator
RECURSIVE SortEntries(_)
SortEntries(es) ==
    IF es = <<>> THEN <<>>
    ELSE LET i == CHOOSE k \in 1..Len(es) :
                     \A j \in 1..Len(es) : j # k => SortsBefore(es[k], es[j])
         IN  <<es[i]>> \o SortEntries(SubSeq(es, 1, i - 1) \o SubSeq(es, i + 1, Len(es)))

\* server listFiles: the inner listDir(dir, level)
RECURSIVE ListDir(_, _, _, _)
ListDir(tree, dir, level, recursive) ==
    IF level > 2 THEN <<>>
    ELSE LET items == tree[dir]
             kept == SelectSeq(items, LAMBDA n : n \notin ListIgnore /\ n \notin Broken)
         IN  SortEntries(
               [i \in 1..Len(kept) |->
                  [name |-> kept[i], type |-> TypeOf(kept[i]),
                   children |-> IF TypeOf(kept[i]) = "folder" /\ recursive
                                THEN ListDir(tree, Append(dir, kept[i]),
                                             level + 1, recursive)
                                ELSE <<>>]])

\* extension _listDir: the entries as readDirectory returns them
ExtListDir(tree, dir) ==
    [i \in 1..Len(tree[dir]) |->
        [name |-> tree[dir][i],
         type |-> IF tree[dir][i] \in Folders THEN "dir" ELSE "file",
         children |-> <<>>]]

\* a directory tree, not yet listed
ListInit ==
    /\ Bench
    /\ sse = SseIdle
    /\ acc = AccIdle
    /\ \E tree \in Trees :
          ws = [on |-> TRUE, tree |-> tree, listed |-> FALSE, recursive |-> FALSE,
                listing |-> <<>>]

\* server: listFiles({path, recursive})
SrvListFiles ==
    /\ host = "web"
    /\ ws.on /\ ~ws.listed
    /\ \E recursive \in BOOLEAN :
          ws' = [ws EXCEPT !.listed = TRUE, !.recursive = recursive,
                           !.listing = ListDir(ws.tree, <<>>, 0, recursive)]
    /\ UNCHANGED <<host, stubborn, sse, acc, modeMsgs, loops, nLoops, fuel,
                   turnsLeft, oddLeft, uiLeft>>
    /\ UNCHANGED logVars
    /\ UNCHANGED extVars
    /\ UNCHANGED webVars

\* extension: list_dir(relative_workspace_path)
ExtListDirCall ==
    /\ host = "ext"
    /\ ws.on /\ ~ws.listed
    /\ ws' = [ws EXCEPT !.listed = TRUE, !.listing = ExtListDir(ws.tree, <<>>)]
    /\ UNCHANGED <<host, stubborn, sse, acc, modeMsgs, loops, nLoops, fuel,
                   turnsLeft, oddLeft, uiLeft>>
    /\ UNCHANGED logVars
    /\ UNCHANGED extVars
    /\ UNCHANGED webVars

ListNext ==
    \/ SrvListFiles
    \/ ExtListDirCall

\* ------------------------------------------------- searching in files
\* A file is its lines, each matching the query or not, whether its name
\* ends with the file pattern, and whether it can be read; a directory is
\* its entries in readdir order, whether it can be read, and whether its
\* name is one the search skips.
Hits(k) == [i \in 1..k |-> TRUE]
File(lines, named, readable) ==
    [kind |-> "file", lines |-> lines, named |-> named, readable |-> readable,
     skipped |-> FALSE, items |-> <<>>]
Folder(items, readable, skipped) ==
    [kind |-> "dir", lines |-> <<>>, named |-> TRUE, readable |-> readable,
     skipped |-> skipped, items |-> items]

SearchFiles ==
    {File(Hits(1), TRUE, TRUE), File(Hits(12), TRUE, TRUE), File(Hits(21), TRUE, TRUE),
     File(<<FALSE, TRUE, FALSE>>, TRUE, TRUE),
     File(Hits(1), TRUE, FALSE), File(Hits(1), FALSE, TRUE)}
SearchFolders ==
    {Folder(<<File(Hits(12), TRUE, TRUE), File(Hits(1), TRUE, FALSE),
              File(<<FALSE, TRUE, FALSE>>, TRUE, TRUE)>>, TRUE, FALSE),
     Folder(<<File(Hits(1), TRUE, TRUE)>>, FALSE, FALSE),
     Folder(<<File(Hits(1), TRUE, TRUE)>>, TRUE, TRUE)}
SearchItems == SearchFiles \cup SearchFolders

\* lines.forEach(...) of one file with `<=` where the code has `<`
RECURSIVE SearchLinesOneMore(_, _, _, _)
SearchLinesOneMore(results, lines, at, idx) ==
    IF idx > Len(lines) THEN results
    ELSE SearchLinesOneMore(
            IF lines[idx] /\ Len(results) <= maxResults
            THEN Append(results, [file |-> at, line |-> idx]) ELSE results,
            lines, at, idx + 1)

\* lines.forEach((line, idx) => ...) of one file: a matching line is pushed
\* while there are fewer than maxResults results
RECURSIVE SearchLines(_, _, _, _)
SearchLines(results, lines, at, idx) ==
    IF idx > Len(lines) THEN results
    ELSE SearchLines(
            IF lines[idx] /\ Len(results) < maxResults
            THEN Append(results, [file |-> at, line |-> idx]) ELSE results,
            lines, at, idx + 1)

\* searchDir(dir): `at` is the path of dir, k the next entry; what an entry
\* throws is caught per entry
RECURSIVE SearchDir(_, _, _, _)
SearchDir(results, items, at, k) ==
    IF Len(results) >= maxResults \/ k > Len(items) THEN results
    ELSE LET item == items[k]
             here == Append(at, k)
             found == IF item.skipped THEN results
                      ELSE IF item.kind = "dir"
                      THEN (IF item.readable
                            THEN SearchDir(results, item.items, here, 1)
                            ELSE results)
                      ELSE IF item.named /\ item.readable
                      THEN SearchLines(results, item.lines, here, 1)
                      ELSE results
         IN  SearchDir(found, items, at, k + 1)

\* a directory to search
SearchInit ==
    /\ Bench
    /\ sse = SseIdle
    /\ acc = AccIdle
    /\ \E k \in 0..MaxItems : \E items \in [1..k -> SearchItems] :
       \E readable \in BOOLEAN :
          ws = [on |-> TRUE, top |-> Folder(items, readable, FALSE),
                searched |-> FALSE, result |-> "none", results |-> <<>>]

\* server: searchInFiles({directory, query, filePattern}); readdirSync of
\* the directory itself throws into the outer catch
SrvSearchInFiles ==
    /\ host = "web"
    /\ ws.on /\ ~ws.searched
    /\ ws' = IF ws.top.readable
             THEN [ws EXCEPT !.searched = TRUE, !.result = "success",
                             !.results = SearchDir(<<>>, ws.top.items, <<>>, 1)]
             ELSE [ws EXCEPT !.searched = TRUE, !.result = "error"]
    /\ UNCHANGED <<host, stubborn, sse, acc, modeMsgs, loops, nLoops, fuel,
                   turnsLeft, oddLeft, uiLeft>>
    /\ UNCHANGED logVars
    /\ UNCHANGED extVars
    /\ UNCHANGED webVars

SearchNext == SrvSearchInFiles

\* ------------------------------------------------------ extension: the loop
Finished(task) == task.st \in {"ok", "err", "rejected"}
AllFinished(tasks) == \A i \in 1..Len(tasks) : Finished(tasks[i])

\* the tool messages of one batch, in the order of the calls (Promise.all)
ToolResults(r) ==
    [i \in 1..Len(r.calls) |->
        Msg("tool", "", <<>>, r.calls[i].id, r.tasks[i].st # "ok")]

\* variant: the cap compared with `<=`
NextIterationLate(r) ==
    IF r.isDone \/ r.loopCount > maxLoops
    THEN [r EXCEPT !.pc = "end", !.outcome = "done"]
    ELSE [r EXCEPT !.loopCount = @ + 1, !.sent = @ + 1,
                   !.sig = abortController, !.pc = "fetch"]

\* `while (!isDone && loopCount < 15) { loopCount++; fetch(...) }`
NextIteration(r) ==
    IF r.isDone \/ r.loopCount >= maxLoops
    THEN [r EXCEPT !.pc = "end", !.outcome = "done"]
    ELSE [r EXCEPT !.loopCount = @ + 1, !.sent = @ + 1,
                   !.sig = abortController, !.pc = "fetch"]

\* the requests a step sends are answered by the environment
Burn(old, new) ==
    /\ new.sent - old.sent <= fuel
    /\ fuel' = fuel - (new.sent - old.sent)

\* an unusual round is paid once from the model's budget
Charge(wasCharged, unusual) ==
    LET pay == IF unusual /\ ~wasCharged THEN 1 ELSE 0
    IN  /\ pay <= oddLeft
        /\ oddLeft' = oddLeft - pay

\* a message from outside the turn is paid from the budget of such messages
Outside(n) ==
    /\ n <= uiLeft
    /\ uiLeft' = uiLeft - n

\* history.push(...toolResults); postMessage({type: 'done'}); next iteration
FinishBatch(r) ==
    NextIteration([r EXCEPT !.doneEvents = @ + 1])

\* Date.now().toString() of the i-th call of a batch
ApprovalIdOf(calls, i, sameMs) ==
    clock + (IF sameMs THEN 0
             ELSE Cardinality({j \in 1..(i - 1) : calls[j].kind = "cmd"}))

\* variant: the autopilot branch taken whatever the mode
RunTerminalCommandUngated(calls, i, sameMs) ==
    [st |-> "running", aid |-> 0]

\* _runTerminalCommand up to its first await
RunTerminalCommand(calls, i, sameMs) ==
    IF securityMode = "full"
    THEN [st |-> "running", aid |-> 0]
    ELSE [st |-> "waiting", aid |-> ApprovalIdOf(calls, i, sameMs)]

\* the synchronous part of every call of the batch (Promise.all over map)
StartTasks(calls, sameMs) ==
    [i \in 1..Len(calls) |->
        IF calls[i].kind = "bad" THEN [st |-> "err", aid |-> 0]
        ELSE IF calls[i].kind = "cmd" THEN RunTerminalCommand(calls, i, sameMs)
        ELSE IF calls[i].kind = "unknown" THEN [st |-> "err", aid |-> 0]
        ELSE [st |-> "running", aid |-> 0]]

\* 'sendMessage' -> _handleAgentMessage
SendMessage ==
    /\ host = "ext"
    /\ turnsLeft > 0
    /\ turnsLeft' = turnsLeft - 1
    /\ nLoops' = nLoops + 1
    /\ aborted' = IF abortController # 0 THEN aborted \cup {abortController}
                  ELSE aborted
    /\ abortController' = nLoops + 1
    /\ transcript' = Append(transcript, Msg("user", "user", <<>>, 0, FALSE))
    /\ loops' = [loops EXCEPT ![nLoops + 1] = [IdleLoop EXCEPT !.pc = "context"]]
    /\ UNCHANGED <<host, stubborn, acc, ws, sse, modeMsgs, securityMode, globalMode, pendingApprovals, clock,
                   fuel, oddLeft, uiLeft>>
    /\ UNCHANGED logVars
    /\ UNCHANGED webVars

\* _runAgentLoop: the smart context arrived, first iteration of the loop
ExtRequest(l) ==
    /\ host = "ext"
    /\ loops[l].pc = "context"
    /\ loops' = [loops EXCEPT ![l] = NextIteration(@)]
    /\ Burn(loops[l], loops'[l])
    /\ UNCHANGED <<host, stubborn, acc, ws, sse, modeMsgs, nLoops, turnsLeft, oddLeft, uiLeft>>
    /\ UNCHANGED logVars
    /\ UNCHANGED extVars
    /\ UNCHANGED webVars

\* the fetch or the stream read throws AbortError
ExtAbortError(l) ==
    /\ host = "ext"
    /\ loops[l].pc = "fetch"
    /\ loops[l].sig \in aborted
    /\ loops' = [loops EXCEPT ![l].pc = "end", ![l].isDone = TRUE,
                              ![l].outcome = "aborted"]
    /\ UNCHANGED <<host, stubborn, acc, ws, sse, modeMsgs, nLoops, fuel, turnsLeft, oddLeft, uiLeft>>
    /\ UNCHANGED logVars
    /\ UNCHANGED extVars
    /\ UNCHANGED webVars

\* variant: the failure is swallowed like an abort
ExtCatchSilent(r) ==
    [r EXCEPT !.pc = "end", !.outcome = "error", !.plain = FALSE]

\* an Error other than AbortError leaves the loop and is caught by
\* _handleAgentMessage, which posts one 'error' message
ExtCatch(r) ==
    [r EXCEPT !.pc = "end", !.outcome = "error", !.plain = FALSE,
              !.errorEvents = @ + 1]

\* the model endpoint is unreachable or answers non-2xx
ExtFailure(l) ==
    /\ host = "ext"
    /\ loops[l].pc = "fetch"
    /\ loops[l].sig \notin aborted
    /\ Charge(FALSE, TRUE)
    /\ loops' = [loops EXCEPT ![l] = ExtCatch(@)]
    /\ UNCHANGED <<host, stubborn, acc, ws, sse, modeMsgs, nLoops, fuel, turnsLeft, uiLeft>>
    /\ UNCHANGED logVars
    /\ UNCHANGED extVars
    /\ UNCHANGED webVars

\* `history.filter(h => h.role === 'tool').slice(-(n || 0))`, some p.error
HadError(history, n) ==
    LET toolMsgs == SelectSeq(history, LAMBDA m : m.role = "tool")
        lastResults == IF n = 0 THEN toolMsgs ELSE SliceLast(toolMsgs, n)
    IN  \E i \in 1..Len(lastResults) : lastResults[i].err

Waiting(tasks) == {i \in 1..Len(tasks) : tasks[i].st = "waiting"}

\* this._pendingApprovals.set(approvalId, resolve) for every waiting call
SetPending(pending, l, tasks) ==
    LET newIds == {tasks[i].aid : i \in Waiting(tasks)}
        lastOf(a) == CHOOSE i \in Waiting(tasks) :
                        /\ tasks[i].aid = a
                        /\ \A j \in Waiting(tasks) : tasks[j].aid = a => j <= i
    IN  [a \in (DOMAIN pending) \cup newIds |->
            IF a \in newIds THEN [loop |-> l, idx |-> lastOf(a)] ELSE pending[a]]

\* postMessage({type: 'approval', id, cmd}) of every waiting call
ApprovalsOf(calls, tasks) ==
    {[id |-> tasks[i].aid, cmd |-> calls[i].cmd] : i \in Waiting(tasks)}

\* cp.spawn of the autopilot branch, in the order of the calls
AutopilotSpawns(calls, tasks) ==
    LET all == [i \in 1..Len(calls) |->
                  [id |-> -1, cmd |-> calls[i].cmd, mode |-> securityMode,
                   via |-> IF calls[i].kind = "cmd" /\ tasks[i].st = "running"
                           THEN "autopilot" ELSE "none"]]
    IN  SelectSeq(all, LAMBDA e : e.via = "autopilot")

\* the branch taken when the round had no tool call (`if (!hasAction)`)
NoAction(r, history) ==
    IF HadError(history, 0) /\ r.loopCount < RetryRounds
    THEN [hist |-> Append(history, Msg("system", "warn", <<>>, 0, FALSE)),
          loop |-> NextIteration(r)]
    ELSE [hist |-> history,
          loop |-> NextIteration([r EXCEPT !.isDone = TRUE,
                                           !.doneEvents = @ + 1])]

\* the stream of one round is read to its end and the answer is handled
ExtResponse(l, ans, sameMs) ==
    /\ host = "ext"
    /\ loops[l].pc = "fetch"
    /\ loops[l].sig \notin aborted
    /\ Allowed(loops[l], ans)
    /\ Charge(FALSE, Cost(ans) = 1)
    /\ LET r == [loops[l] EXCEPT !.answered = @ + 1,
                                 !.usual = IF Cost(ans) = 0 THEN UsualOf(ans) ELSE @,
                                 !.lastN = Len(ans.kinds),
                                 !.plain = @ /\ ans = PlainCall,
                                 !.charged = (Cost(ans) = 1)]
           calls == BatchOf(l, r.loopCount, ans)
           tasks == StartTasks(calls, sameMs)
           assistant == Msg("assistant", IF ans.content THEN "c" ELSE "",
                            CallIds(calls), 0, FALSE)
           history == Append(transcript, assistant)
       IN  IF Len(calls) > 0
           THEN /\ pendingApprovals' = SetPending(pendingApprovals, l, tasks)
                /\ approvalEvents' = approvalEvents \cup ApprovalsOf(calls, tasks)
                /\ spawnLog' = spawnLog \o AutopilotSpawns(calls, tasks)
                /\ clock' = clock + MaxBatch
                /\ LET rt == [r EXCEPT !.calls = calls, !.tasks = tasks,
                                        !.pc = "tools",
                                        !.approvalSeen = @ \/ Waiting(tasks) # {}]
                   IN  IF AllFinished(tasks)
                       THEN /\ transcript' = history \o ToolResults(rt)
                            /\ loops' = [loops EXCEPT ![l] = FinishBatch(rt)]
                       ELSE /\ transcript' = history
                            /\ loops' = [loops EXCEPT ![l] = rt]
           ELSE /\ transcript' = NoAction(r, history).hist
                /\ loops' = [loops EXCEPT ![l] = NoAction(r, history).loop]
                /\ UNCHANGED <<pendingApprovals, approvalEvents, spawnLog, clock>>
    /\ Burn(loops[l], loops'[l])
    /\ UNCHANGED <<host, stubborn, acc, ws, sse, modeMsgs, securityMode, globalMode, abortController, aborted,
                   nLoops, decisions, turnsLeft, uiLeft>>
    /\ UNCHANGED webVars

\* a started tool call (or a spawned process) completes
ExtToolFinish(l, i, ok) ==
    /\ host = "ext"
    /\ loops[l].pc = "tools"
    /\ i \in 1..Len(loops[l].tasks)
    /\ loops[l].tasks[i].st = "running"
    /\ Charge(loops[l].charged, ~ok)
    /\ LET r == [loops[l] EXCEPT !.tasks[i].st = IF ok THEN "ok" ELSE "err",
                                 !.charged = @ \/ ~ok,
                                 !.plain = @ /\ ok]
       IN  IF AllFinished(r.tasks)
           THEN /\ transcript' = transcript \o ToolResults(r)
                /\ loops' = [loops EXCEPT ![l] = FinishBatch(r)]
           ELSE /\ transcript' = transcript
                /\ loops' = [loops EXCEPT ![l] = r]
    /\ Burn(loops[l], loops'[l])
    /\ UNCHANGED <<host, stubborn, acc, ws, sse, modeMsgs, securityMode, globalMode, abortController, aborted,
                   pendingApprovals, clock, nLoops, turnsLeft, uiLeft>>
    /\ UNCHANGED logVars
    /\ UNCHANGED webVars

\* the ids a decision message can name: every announced one and an unknown one
DecisionIds == {e.id : e \in approvalEvents} \cup {0}

\* the invocation a decision resumes: `this._pendingApprovals.get(data.id)`
Resolver(id) ==
    IF id \in DOMAIN pendingApprovals THEN pendingApprovals[id]
    ELSE [loop |-> 0, idx |-> 0]

\* variant: the decision is not looked at
AfterDecisionIgnored(approved) == "running"

\* _runTerminalCommand after its await: `if (!approved) return {error}`,
\* otherwise the process is spawned
AfterDecision(approved) == IF approved THEN "running" ELSE "rejected"

\* 'terminalApproval': resolver(data.choice), the entry is deleted, and
\* _runTerminalCommand continues after its await
TerminalApproval(id, choice) ==
    /\ host = "ext"
    /\ id \in DecisionIds
    /\ decisions' = decisions \cup {Decision(id, choice, Resolver(id).loop # 0)}
    /\ IF Resolver(id).loop # 0
       THEN LET l == Resolver(id).loop
                i == Resolver(id).idx
                r == [loops[l] EXCEPT !.tasks[i].st = AfterDecision(choice),
                         !.rejected = IF choice THEN @ ELSE loops[l].calls[i].id,
                         !.rejectedAt = IF choice THEN @ ELSE loops[l].sent]
            IN  /\ pendingApprovals' =
                     [a \in (DOMAIN pendingApprovals) \ {id} |-> pendingApprovals[a]]
                /\ spawnLog' = IF r.tasks[i].st = "running"
                     THEN Append(spawnLog, [id |-> id, cmd |-> r.calls[i].cmd,
                                  mode |-> securityMode, via |-> "approval"])
                     ELSE spawnLog
                /\ IF AllFinished(r.tasks)
                   THEN /\ transcript' = transcript \o ToolResults(r)
                        /\ loops' = [loops EXCEPT ![l] = FinishBatch(r)]
                   ELSE /\ transcript' = transcript
                        /\ loops' = [loops EXCEPT ![l] = r]
                /\ Burn(loops[l], loops'[l])
                /\ UNCHANGED uiLeft
       ELSE /\ Outside(IF decisions' = decisions THEN 0 ELSE 1)
            /\ UNCHANGED <<pendingApprovals, spawnLog, transcript, loops, fuel>>
    /\ UNCHANGED <<host, stubborn, acc, ws, sse, modeMsgs, securityMode, globalMode, abortController, aborted,
                   clock, nLoops, approvalEvents, turnsLeft, oddLeft>>
    /\ UNCHANGED webVars

\* the turn of the aborted controller as the stop finds it: the requests it
\* has sent and the tool calls it has started and not finished
Stopped(r) ==
    IF r.pc \in {"idle", "end"} THEN r
    ELSE [r EXCEPT !.stoppedAt = r.sent,
                   !.discard = IF r.pc = "tools"
                               THEN {r.calls[i].id : i \in {j \in 1..Len(r.tasks) :
                                                            ~Finished(r.tasks[j])}}
                               ELSE {}]

\* 'stopGeneration'
StopGeneration ==
    /\ host = "ext"
    /\ abortController # 0
    /\ Outside(1)
    /\ aborted' = aborted \cup {abortController}
    /\ abortController' = 0
    /\ loops' = [loops EXCEPT ![abortController] = Stopped(@)]
    /\ UNCHANGED <<host, stubborn, acc, ws, sse, modeMsgs, securityMode, globalMode, pendingApprovals, transcript,
                   clock, nLoops, fuel, turnsLeft, oddLeft>>
    /\ UNCHANGED logVars
    /\ UNCHANGED webVars

\* what 'setSecurityMode' writes to globalState
Persisted(value) == value

\* 'setSecurityMode'
SetSecurityMode(value) ==
    /\ host = "ext"
    /\ Outside(IF value = securityMode /\ value \in modeMsgs THEN 0 ELSE 1)
    /\ securityMode' = value
    /\ globalMode' = Persisted(value)
    /\ modeMsgs' = modeMsgs \cup {value}
    /\ UNCHANGED <<host, stubborn, acc, ws, sse, abortController, aborted, pendingApprovals,
                   transcript, clock, loops, nLoops, fuel, turnsLeft, oddLeft>>
    /\ UNCHANGED logVars
    /\ UNCHANGED webVars

\* the constructor: globalState.get('watch-ai.securityMode', 'secure')
StoredMode == globalMode

\* the window is reloaded: a new WatchAIProvider is constructed
Reload ==
    /\ host = "ext"
    /\ Outside(1)
    /\ securityMode' = StoredMode
    /\ abortController' = 0
    /\ pendingApprovals' = <<>>
    /\ transcript' = <<>>
    /\ loops' = [l \in LoopIds |->
                   IF loops[l].pc \in {"idle", "end"} THEN loops[l]
                   ELSE [loops[l] EXCEPT !.pc = "end", !.outcome = "killed"]]
    /\ UNCHANGED <<host, stubborn, acc, ws, sse, modeMsgs, globalMode, aborted, clock, nLoops, fuel, turnsLeft,
                   oddLeft>>
    /\ UNCHANGED logVars
    /\ UNCHANGED webVars

ExtNext ==
    \/ SendMessage
    \/ \E l \in LoopIds : ExtRequest(l)
    \/ \E l \in LoopIds : ExtAbortError(l)
    \/ \E l \in LoopIds : ExtFailure(l)
    \/ \E l \in LoopIds, ans \in Answers, sameMs \in BOOLEAN :
          ExtResponse(l, ans, sameMs)
    \/ \E l \in LoopIds, i \in 1..MaxBatch, ok \in BOOLEAN : ExtToolFinish(l, i, ok)
    \/ \E id \in DecisionIds, choice \in BOOLEAN : TerminalApproval(id, choice)
    \/ StopGeneration
    \/ \E value \in Modes : SetSecurityMode(value)
    \/ Reload

\* ------------------------------------------------- server: POST /api/agent/chat
\* `while (!isDone && loopCount < maxLoops) { loopCount++; create(...) }`,
\* and the 'done' event after the loop
SrvIteration(r) ==
    IF r.isDone \/ r.loopCount >= maxLoops
    THEN [r EXCEPT !.pc = "end", !.outcome = "done", !.doneEvents = @ + 1]
    ELSE [r EXCEPT !.loopCount = @ + 1, !.sent = @ + 1, !.pc = "fetch"]

\* chatMessages with history.slice(0, 10) where the code has slice(-10)
ChatMessagesOldest(text, history) ==
    <<Msg("system", "sys", <<>>, 0, FALSE)>>
        \o SubSeq(history, 1, Min(HistoryWindow, Len(history)))
        \o <<Msg("user", text, <<>>, 0, FALSE)>>

\* chatMessages = [system, ...history.slice(-10), user]
ChatMessages(text, history) ==
    <<Msg("system", "sys", <<>>, 0, FALSE)>>
        \o SliceLast(history, HistoryWindow)
        \o <<Msg("user", text, <<>>, 0, FALSE)>>

\* the handler of POST /api/agent/chat up to its first model request
AgentChat(text, history, other) ==
    /\ turnsLeft > 0
    /\ turnsLeft' = turnsLeft - 1
    /\ nLoops' = nLoops + 1
    /\ sessionStats' = <<>>
    /\ loops' = [loops EXCEPT ![nLoops + 1] =
          SrvIteration([IdleLoop EXCEPT !.msgs = ChatMessages(text, history),
                                        !.other = other])]
    /\ Burn(loops[nLoops + 1], loops'[nLoops + 1])

\* the index of the first runCommand call of a batch (Len + 1 when none):
\* the `break` of the for loop over validCalls
FirstCommand(calls) ==
    IF \E i \in 1..Len(calls) : calls[i].kind = "cmd"
    THEN CHOOSE i \in 1..Len(calls) :
            /\ calls[i].kind = "cmd"
            /\ \A j \in 1..(i - 1) : calls[j].kind # "cmd"
    ELSE Len(calls) + 1

\* what the for loop over validCalls does with each call
SrvTasks(calls, errs) ==
    [i \in 1..Len(calls) |->
        [st |-> IF i < FirstCommand(calls)
                THEN (IF calls[i].kind = "unknown" THEN "nohandler"
                      ELSE IF i \in errs THEN "err" ELSE "ok")
                ELSE IF i = FirstCommand(calls) THEN "waiting"
                ELSE "skipped",
         aid |-> IF i = FirstCommand(calls) THEN calls[i].id ELSE 0]]

\* the tool messages pushed for the executed calls
SrvToolMessages(calls, tasks) ==
    LET all == [i \in 1..Len(calls) |->
                  Msg(IF tasks[i].st \in {"ok", "err"} THEN "tool" ELSE "none",
                      "", <<>>, calls[i].id, tasks[i].st = "err")]
    IN  SelectSeq(all, LAMBDA m : m.role = "tool")

\* sessionStats.toolCalls.push(...) of one batch
SrvStatEntries(calls, tasks) ==
    LET all == [i \in 1..Len(calls) |->
                  [name |-> calls[i].kind,
                   status |-> IF tasks[i].st = "ok" THEN "success"
                              ELSE IF tasks[i].st = "err" THEN "error"
                              ELSE IF tasks[i].st = "waiting" THEN "pending_approval"
                              ELSE "none"]]
    IN  SelectSeq(all, LAMBDA e : e.status # "none")

\* JSON.parse(tc.function.arguments || '{}') of the 'tool_call' event throws
Throws(calls) == \E i \in 1..Len(calls) : calls[i].kind = "bad"

\* the catch of the chat handler: an 'error' event, and the response ends
SrvCatch(r) ==
    [r EXCEPT !.pc = "end", !.outcome = "error", !.errorEvents = @ + 1]

\* web client: handleChunk for the 'error' event
HandleError(msgs) == Append(msgs, Msg("assistant", "error", <<>>, 0, TRUE))

\* web client: finishResponse, run for the 'done' event
FinishResponse(msgs) == Append(msgs, Msg("assistant", "a", <<>>, 0, FALSE))

\* one round of the server loop: the stream is consumed, the tool calls are
\* handled, and the loop goes on or ends; the client handles the events
SrvRound(l, ans, errs) ==
    /\ host = "web"
    /\ loops[l].pc = "fetch"
    /\ Allowed(loops[l], ans)
    /\ errs \subseteq 1..Len(ans.kinds)
    /\ LET r0 == loops[l]
           calls == BatchOf(l, r0.loopCount, ans)
           k == FirstCommand(calls)
           tasks == IF Throws(calls)
                    THEN [i \in 1..Len(calls) |-> [st |-> "skipped", aid |-> 0]]
                    ELSE SrvTasks(calls, errs)
           unusual == Cost(ans) = 1 \/ \E i \in 1..Len(calls) : tasks[i].st = "err"
           withReply == IF ans.content
                        THEN Append(r0.msgs, Msg("assistant", "c", <<>>, 0, FALSE))
                        ELSE r0.msgs
           msgs == IF Len(calls) > 0
                   THEN Append(withReply, Msg("assistant", "", CallIds(calls), 0, FALSE))
                            \o SrvToolMessages(calls, tasks)
                   ELSE withReply
           gate == ~Throws(calls) /\ k <= Len(calls)
           r1 == [r0 EXCEPT !.answered = @ + 1, !.lastN = Len(calls),
                            !.plain = @ /\ ~unusual /\ ans = PlainCall,
                            !.usual = IF Cost(ans) = 0 THEN UsualOf(ans) ELSE @,
                            !.msgs = msgs, !.calls = calls, !.tasks = tasks,
                            !.isDone = (Len(calls) = 0 \/ gate),
                            !.approvalSeen = @ \/ gate]
           r2 == IF Throws(calls) THEN SrvCatch(r1) ELSE SrvIteration(r1)
           r == [r2 EXCEPT !.stats = @ \o SrvStatEntries(calls, tasks),
                           !.doneStats = IF r2.outcome = "done"
                                         THEN sessionStats \o SrvStatEntries(calls, tasks)
                                         ELSE @]
       IN  /\ errs \subseteq {i \in 1..(k - 1) : tasks[i].st \in {"ok", "err"}
                                                  /\ calls[i].kind = "tool"}
           /\ Charge(FALSE, unusual)
           /\ loops' = [loops EXCEPT ![l] = r]
           /\ Burn(r0, r)
           /\ sessionStats' = sessionStats \o SrvStatEntries(calls, tasks)
           /\ approvalEvents' = IF gate
                THEN approvalEvents \cup {[id |-> calls[k].id, cmd |-> calls[k].cmd]}
                ELSE approvalEvents
           /\ pendingApproval' = IF gate /\ ~r0.other
                THEN [id |-> calls[k].id, command |-> calls[k].cmd]
                ELSE pendingApproval
           /\ IF r0.other
              THEN UNCHANGED <<messages, currentResponse, isLoading>>
              ELSE IF r.outcome = "error"
              THEN /\ messages' = HandleError(messages)
                   /\ currentResponse' = (currentResponse \/ ans.content)
                   /\ isLoading' = FALSE
              ELSE IF r.pc = "end"
              THEN /\ messages' = FinishResponse(messages)
                   /\ currentResponse' = FALSE
                   /\ isLoading' = FALSE
              ELSE /\ messages' = messages
                   /\ currentResponse' = (currentResponse \/ ans.content)
                   /\ isLoading' = isLoading
    /\ UNCHANGED <<host, stubborn, acc, ws, sse, modeMsgs, nLoops, turnsLeft, uiLeft, approveCalls,
                   decisions, spawnLog>>
    /\ UNCHANGED extVars

\* openai.chat.completions.create rejects or its stream throws: the catch
\* of the chat handler, and the client's handling of the 'error' event
SrvFailure(l) ==
    /\ host = "web"
    /\ loops[l].pc = "fetch"
    /\ Charge(FALSE, TRUE)
    /\ loops' = [loops EXCEPT ![l] = SrvCatch([@ EXCEPT !.plain = FALSE])]
    /\ IF loops[l].other
       THEN UNCHANGED <<messages, isLoading>>
       ELSE /\ messages' = HandleError(messages)
            /\ isLoading' = FALSE
    /\ UNCHANGED <<host, stubborn, acc, ws, sse, modeMsgs, nLoops, fuel, turnsLeft, uiLeft,
                   sessionStats, currentResponse, pendingApproval, approveCalls>>
    /\ UNCHANGED logVars
    /\ UNCHANGED extVars

\* ------------------------------------------------------------ web client
\* handleSend
HandleSend ==
    /\ host = "web"
    /\ ~isLoading
    /\ messages' = Append(messages, Msg("user", "user", <<>>, 0, FALSE))
    /\ isLoading' = TRUE
    /\ currentResponse' = FALSE
    /\ AgentChat("user", SliceLast(messages, HistoryWindow), FALSE)
    /\ UNCHANGED <<host, stubborn, acc, ws, sse, modeMsgs, oddLeft, uiLeft, pendingApproval, approveCalls>>
    /\ UNCHANGED logVars
    /\ UNCHANGED extVars

\* handleApproval: approveCommand(id, command, cwd) is called only `if (approved)`
ApproveCommandCalls(approved) ==
    IF approved
    THEN {[id |-> pendingApproval.id, command |-> pendingApproval.command,
           snap |-> messages, st |-> "posted", ok |-> TRUE]}
    ELSE {}

\* handleApproval up to its await: the card is answered
HandleApproval(approved) ==
    /\ host = "web"
    /\ pendingApproval # NoApproval
    /\ pendingApproval' = NoApproval
    /\ decisions' = decisions \cup {Decision(pendingApproval.id, approved, TRUE)}
    /\ approveCalls' = approveCalls \cup ApproveCommandCalls(approved)
    /\ isLoading' = (isLoading \/ approved)
    /\ loops' = [l \in LoopIds |->
          IF ~approved /\ pendingApproval.id \in Range(CallIds(loops[l].calls))
          THEN [loops[l] EXCEPT !.rejected = pendingApproval.id,
                                !.rejectedAt = loops[l].sent]
          ELSE loops[l]]
    /\ UNCHANGED <<host, stubborn, acc, ws, sse, modeMsgs, nLoops, fuel, turnsLeft, oddLeft, uiLeft,
                   sessionStats, messages, currentResponse, approvalEvents, spawnLog>>
    /\ UNCHANGED extVars

\* POST /api/agent/approve: execSync(command)
Approve(toolCallId, command) ==
    spawnLog' = Append(spawnLog, [id |-> toolCallId, cmd |-> command,
                                  mode |-> securityMode, via |-> "http"])

\* the server handles an approveCommand call of the web client
AgentApprove(c, ok) ==
    /\ host = "web"
    /\ c \in approveCalls
    /\ c.st = "posted"
    /\ Approve(c.id, c.command)
    /\ approveCalls' = (approveCalls \ {c}) \cup {[c EXCEPT !.st = "answered", !.ok = ok]}
    /\ UNCHANGED <<host, stubborn, acc, ws, sse, modeMsgs, loops, nLoops, fuel, turnsLeft, oddLeft, uiLeft,
                   sessionStats, messages, isLoading, currentResponse,
                   pendingApproval, approvalEvents, decisions>>
    /\ UNCHANGED extVars

\* variant: the result is not merged into the history
ResumeHistoryNoResult(c) ==
    c.snap \o <<Msg("assistant", "", <<>>, 0, FALSE)>>

\* handleApproval after its await: the history is extended by the result
ResumeHistory(c) ==
    c.snap \o <<Msg("assistant", "", <<>>, 0, FALSE),
                Msg("tool", "", <<>>, c.id, ~c.ok)>>

\* handleApproval after its await, and resumeAgent
ApproveReturned(c) ==
    /\ host = "web"
    /\ c \in approveCalls
    /\ c.st = "answered"
    /\ approveCalls' = approveCalls \ {c}
    /\ messages' = ResumeHistory(c)
    /\ currentResponse' = FALSE
    /\ AgentChat("note", ResumeHistory(c), FALSE)
    /\ UNCHANGED <<host, stubborn, acc, ws, sse, modeMsgs, oddLeft, uiLeft, isLoading, pendingApproval>>
    /\ UNCHANGED logVars
    /\ UNCHANGED extVars

\* approveCommand throws (the request or its answer is lost): the catch branch
ApproveFailed(c) ==
    /\ host = "web"
    /\ c \in approveCalls
    /\ Outside(1)
    /\ approveCalls' = approveCalls \ {c}
    /\ isLoading' = FALSE
    /\ UNCHANGED <<host, stubborn, acc, ws, sse, modeMsgs, loops, nLoops, fuel, turnsLeft, oddLeft,
                   sessionStats, messages, currentResponse, pendingApproval>>
    /\ UNCHANGED logVars
    /\ UNCHANGED extVars

\* another HTTP client posts to /api/agent/chat
ForeignChat ==
    /\ host = "web"
    /\ AgentChat("user", <<>>, TRUE)
    /\ UNCHANGED <<host, stubborn, acc, ws, sse, modeMsgs, oddLeft, uiLeft, messages, isLoading,
                   currentResponse, pendingApproval, approveCalls>>
    /\ UNCHANGED logVars
    /\ UNCHANGED extVars

\* another HTTP client posts to /api/agent/approve
ForeignApprove(toolCallId, command) ==
    /\ host = "web"
    /\ Outside(1)
    /\ Approve(toolCallId, command)
    /\ UNCHANGED <<host, stubborn, acc, ws, sse, modeMsgs, loops, nLoops, fuel, turnsLeft, oddLeft,
                   approvalEvents, decisions>>
    /\ UNCHANGED webVars
    /\ UNCHANGED extVars

WebNext ==
    \/ HandleSend
    \/ \E l \in LoopIds, ans \in Answers, errs \in SUBSET (1..MaxBatch) :
          SrvRound(l, ans, errs)
    \/ \E l \in LoopIds : SrvFailure(l)
    \/ \E approved \in BOOLEAN : HandleApproval(approved)
    \/ \E c \in approveCalls, ok \in BOOLEAN : AgentApprove(c, ok)
    \/ \E c \in approveCalls : ApproveReturned(c)
    \/ \E c \in approveCalls : ApproveFailed(c)

\* ------------------------------------------------ edits awaiting approval
\* the spellings of target_file: relative to the workspace, and absolute
PathWA == [abs |-> TRUE, parts |-> <<"w", "a">>]
EditPaths == {PathA, PathWA, PathAbs}
\* the files an edit or its approval can write: /w/a, /o and /a
EditLocs == {<<"w", "a">>, <<"o">>, <<"a">>}
\* the values of code_edit
EditTexts == {<<"c">>, <<"e">>}

\* uri.fsPath of the resolved target: the `file` of the edit_pending event
FsPath(p) == [abs |-> TRUE, parts |-> Resolve(p)]
\* vscode.Uri.file(f): a path without a leading slash gets one
UriFile(p) == Norm(<<>>, p.parts)

\* Map.prototype.set: a known key keeps its place, a new key goes last
MapSet(m, k, v) ==
    IF \E i \in 1..Len(m) : m[i].key = k
    THEN [i \in 1..Len(m) |-> IF m[i].key = k THEN [key |-> k, newContent |-> v] ELSE m[i]]
    ELSE Append(m, [key |-> k, newContent |-> v])
\* Map.prototype.delete
MapDelete(m, k) == SelectSeq(m, LAMBDA e : e.key # k)
MapHas(m, k) == \E i \in 1..Len(m) : m[i].key = k
MapGet(m, k) == (CHOOSE e \in Range(m) : e.key = k).newContent

\* `for (const [f, p] of this._pendingEdits) await writeFile(Uri.file(f), ...)`
RECURSIVE WriteEach(_, _)
WriteEach(files, m) ==
    IF m = <<>> THEN files
    ELSE WriteEach([files EXCEPT ![UriFile(Head(m).key)] = Head(m).newContent], Tail(m))

\* the state a handler of the edit messages starts from
Handling(w, op, file) ==
    [w EXCEPT !.calls = @ + 1, !.op = op, !.file = file, !.modeAt = securityMode,
              !.filesBefore = w.files, !.proposedBefore = w.proposed]

\* _editFile(fpath, codeEdit)
EditFile(w, fpath, codeEdit) ==
    IF securityMode = "full"
    THEN [w EXCEPT !.files[Resolve(fpath)] = codeEdit]
    ELSE [w EXCEPT !.pendingEdits = MapSet(@, fpath, codeEdit),
                   !.announced = @ \cup {FsPath(fpath)},
                   !.proposed[Resolve(fpath)] = codeEdit]

\* _writePendingEdit(filePath)
WritePendingEdit(w, filePath) ==
    IF MapHas(w.pendingEdits, filePath)
    THEN [w EXCEPT !.files[UriFile(filePath)] = MapGet(w.pendingEdits, filePath),
                   !.pendingEdits = MapDelete(@, filePath),
                   !.proposed[Resolve(filePath)] = Absent]
    ELSE w

\* _rejectPendingEdit(filePath)
RejectPendingEdit(w, filePath) ==
    [w EXCEPT !.pendingEdits = MapDelete(@, filePath),
              !.proposed[Resolve(filePath)] = Absent]

\* _approveAllEdits()
ApproveAllEdits(w) ==
    [w EXCEPT !.files = WriteEach(@, w.pendingEdits),
              !.pendingEdits = <<>>,
              !.proposed = [f \in EditLocs |-> Absent]]

\* _rejectAllEdits()
RejectAllEdits(w) ==
    [w EXCEPT !.pendingEdits = <<>>,
              !.proposed = [f \in EditLocs |-> Absent]]

\* the extension with a workspace and no edit proposed yet.  `proposed` is
\* the edit of each target as the user was told: the content last announced
\* for it and neither approved nor rejected since
EditInit ==
    /\ Boot
    /\ host = "ext"
    /\ fuel = 0 /\ turnsLeft = 0 /\ oddLeft = 0 /\ uiLeft = 1 /\ stubborn = FALSE
    /\ sse = SseIdle
    /\ acc = AccIdle
    /\ ws = [on |-> TRUE,
             files |-> [f \in EditLocs |-> IF f = <<"a">> THEN Absent ELSE <<"a">>],
             pendingEdits |-> <<>>, announced |-> {},
             proposed |-> [f \in EditLocs |-> Absent],
             calls |-> 0, op |-> "none", file |-> NoPath, modeAt |-> "secure",
             filesBefore |-> [f \in EditLocs |-> Absent],
             proposedBefore |-> [f \in EditLocs |-> Absent]]

\* what the handlers of the edit messages leave alone
EditFrame ==
    /\ UNCHANGED <<host, stubborn, sse, acc, modeMsgs, loops, nLoops, fuel,
                   turnsLeft, oddLeft, uiLeft>>
    /\ UNCHANGED logVars
    /\ UNCHANGED extVars
    /\ UNCHANGED webVars

EditReady == host = "ext" /\ ws.on /\ ws.calls < MaxEdits

\* case 'edit_file' of the tool dispatch
EditFileCall ==
    /\ EditReady
    /\ \E fpath \in EditPaths : \E codeEdit \in EditTexts :
          ws' = EditFile(Handling(ws, "edit_file", fpath), fpath, codeEdit)
    /\ EditFrame

\* the files a decision message names: those the webview was told
DecisionFiles == ws.announced

\* case 'approveEdit'
ApproveEdit ==
    /\ EditReady
    /\ \E file \in DecisionFiles :
          ws' = WritePendingEdit(Handling(ws, "approveEdit", file), file)
    /\ EditFrame

\* case 'rejectEdit'
RejectEdit ==
    /\ EditReady
    /\ \E file \in DecisionFiles :
          ws' = RejectPendingEdit(Handling(ws, "rejectEdit", file), file)
    /\ EditFrame

\* case 'approveAll'
ApproveAll ==
    /\ EditReady
    /\ ws' = ApproveAllEdits(Handling(ws, "approveAll", NoPath))
    /\ EditFrame

\* case 'rejectAll'
RejectAll ==
    /\ EditReady
    /\ ws' = RejectAllEdits(Handling(ws, "rejectAll", NoPath))
    /\ EditFrame

\* case 'setSecurityMode' while edits are proposed
EditMode == ws.on /\ SetSecurityMode("full")

EditNext ==
    \/ EditFileCall
    \/ ApproveEdit
    \/ RejectEdit
    \/ ApproveAll
    \/ RejectAll
    \/ EditMode

\* --------------------------------- the message list of a chat request
\* the deltas of the streams followed here: a call of a tool with a handler,
\* a call of runCommand, an id alone, a name without an id
RoundShapes ==
    {[id |-> "x", name |-> <<"r">>, arguments |-> <<"p">>],
     [id |-> "y", name |-> <<"c">>, arguments |-> <<>>],
     [id |-> "x", name |-> <<>>, arguments |-> <<>>],
     [id |-> "", name |-> <<"w">>, arguments |-> <<"p">>]}
RoundDeltas ==
    {[index |-> i, id |-> d.id, name |-> d.name, arguments |-> d.arguments] :
        i \in Indices, d \in RoundShapes}

\* `for await (const chunk of stream)`: the tool calls of all deltas
RECURSIVE Collect(_, _)
Collect(toolCalls, ds) ==
    IF ds = <<>> THEN toolCalls
    ELSE Collect(AccumulateCall(toolCalls, Head(ds)), Tail(ds))

\* toolCalls.length: one more than the highest index that was assigned
LengthOf(toolCalls) ==
    IF \E i \in Indices : toolCalls[i].held
    THEN 1 + CHOOSE i \in Indices :
                /\ toolCalls[i].held
                /\ \A j \in Indices : toolCalls[j].held => j <= i
    ELSE 0

\* toolCalls.filter(tc => tc && tc.id && tc.function.name)
ValidCalls(toolCalls) ==
    LET all == [k \in 1..LengthOf(toolCalls) |-> toolCalls[k - 1]]
    IN  SelectSeq(all, LAMBDA tc : tc.held /\ tc.id # "" /\ tc.name # <<>>)

\* JSON.parse(tc.function.arguments || '{}'): one piece is a JSON text,
\* two pieces in a row are not
Parses(arguments) == Len(arguments) <= 1
\* toolHandlers[toolName]
HasHandler(name) == name = <<"r">>
IsRunCommand(name) == name = <<"c">>

\* `for (const toolCall of validCalls)`: the messages pushed, and whether
\* the loop broke at a runCommand
RECURSIVE Execute(_, _, _)
Execute(calls, msgs, ok) ==
    IF calls = <<>> THEN [msgs |-> msgs, gate |-> FALSE]
    ELSE IF IsRunCommand(Head(calls).name) THEN [msgs |-> msgs, gate |-> TRUE]
    ELSE IF HasHandler(Head(calls).name)
    THEN Execute(Tail(calls), Append(msgs, Msg("tool", "", <<>>, Head(calls).id, ~ok)), ok)
    ELSE Execute(Tail(calls), msgs, ok)

\* one pass of the body of `while (!isDone && loopCount < maxLoops)` after
\* the request: what it does to chatMessages, and how it leaves the loop
RoundOf(chatMessages, fullReply, toolCalls, ok) ==
    LET withReply == IF fullReply
                     THEN Append(chatMessages, Msg("assistant", "c", <<>>, 0, FALSE))
                     ELSE chatMessages
        validCalls == ValidCalls(toolCalls)
        withCalls == Append(withReply,
                            Msg("assistant", "",
                                [k \in 1..Len(validCalls) |-> validCalls[k].id],
                                0, FALSE))
        throws == \E k \in 1..Len(validCalls) : ~Parses(validCalls[k].arguments)
        run == Execute(validCalls, withCalls, ok)
    IN  IF LengthOf(toolCalls) = 0
        THEN [msgs |-> withReply, isDone |-> TRUE, throws |-> FALSE]
        ELSE IF validCalls = <<>>
        THEN [msgs |-> withReply, isDone |-> FALSE, throws |-> FALSE]
        ELSE IF throws
        THEN [msgs |-> withCalls, isDone |-> FALSE, throws |-> TRUE]
        ELSE [msgs |-> run.msgs, isDone |-> run.gate, throws |-> FALSE]

\* a chat request whose first model request has been sent
RoundInit ==
    /\ Bench
    /\ host = "web"
    /\ sse = SseIdle
    /\ acc = AccIdle
    /\ ws = [on |-> TRUE,
             chatMessages |-> ChatMessages("user", <<>>),
             loop |-> [pc |-> "fetch", outcome |-> "", loopCount |-> 1,
                       isDone |-> FALSE, sent |-> 1, doneEvents |-> 0,
                       errorEvents |-> 0],
             previous |-> <<>>,
             request |-> ChatMessages("user", <<>>),
             added |-> 0, streamed |-> 0]

\* the stream of a round is consumed, its tool calls are handled, and the
\* loop sends the next request or ends
SrvStream ==
    /\ host = "web"
    /\ ws.on
    /\ ws.loop.pc = "fetch"
    /\ ws.loop.loopCount <= MaxRounds
    /\ \E fullReply \in BOOLEAN : \E ok \in BOOLEAN :
       \E n \in 0..2 : \E ds \in [1..n -> RoundDeltas] :
          LET toolCalls == Collect([i \in Indices |-> NoCall], ds)
              round == RoundOf(ws.chatMessages, fullReply, toolCalls, ok)
              r1 == [ws.loop EXCEPT !.isDone = round.isDone]
              r == IF round.throws THEN SrvCatch(r1) ELSE SrvIteration(r1)
          IN  ws' = [ws EXCEPT !.chatMessages = round.msgs,
                               !.loop = r,
                               !.added = Len(round.msgs) - Len(ws.chatMessages),
                               !.streamed = LengthOf(toolCalls),
                               !.previous = IF r.pc = "fetch" THEN ws.request ELSE @,
                               !.request = IF r.pc = "fetch" THEN round.msgs ELSE @]
    /\ UNCHANGED <<host, stubborn, sse, acc, modeMsgs, loops, nLoops, fuel,
                   turnsLeft, oddLeft, uiLeft>>
    /\ UNCHANGED logVars
    /\ UNCHANGED extVars
    /\ UNCHANGED webVars

RoundNext == SrvStream

\* ------------------------------------------ conversations and newChat
\* _currentTranscript is a reference to an array, and newChat makes it refer
\* to a new one.  `arrays` are the arrays made so far, `current` the one
\* _currentTranscript refers to, and `hist` of a turn the one its loop got
\* as `history`.  An entry of a transcript records the conversation that was
\* current when its turn started (`chat`).
ChatIds == 1..(MaxChats + 1)
TurnIds == 1..MaxTurns
Entry(role, content, err, chat) ==
    [role |-> role, content |-> content, err |-> err, chat |-> chat]
IdleTurn ==
    [pc |-> "idle", hist |-> 0, loopCount |-> 0, outcome |-> "",
     errorEvents |-> 0, crossed |-> FALSE]

\* transcript.filter(m => m.role === 'user' || (m.role === 'assistant' && m.content))
CleanTranscript(t) ==
    SelectSeq(t, LAMBDA m : m.role = "user" \/ (m.role = "assistant" /\ m.content))

\* _saveToHistory(firstMessage, transcript), ids being given in order
SaveToHistory(w, t) ==
    IF w.activeConversationId # 0
    THEN [w EXCEPT !.history =
             [k \in 1..Len(@) |->
                 IF @[k].id = w.activeConversationId
                 THEN [@[k] EXCEPT !.transcript = CleanTranscript(t)]
                 ELSE @[k]]]
    ELSE [w EXCEPT !.activeConversationId = Len(w.history) + 1,
                   !.history = Append(@, [id |-> Len(w.history) + 1,
                                          chat |-> w.current,
                                          transcript |-> CleanTranscript(t)])]

\* what follows `await this._runAgentLoop(...)` in _handleAgentMessage:
\* this._currentTranscript[0].content of an empty array throws a TypeError,
\* which the catch reports with an 'error' message
AfterLoop(w, l, outcome) ==
    LET ended == [w EXCEPT !.turns[l].pc = "end", !.turns[l].outcome = outcome]
    IN  IF w.arrays[w.current] = <<>>
        THEN [ended EXCEPT !.turns[l].errorEvents = @ + 1,
                           !.turns[l].outcome = "error"]
        ELSE SaveToHistory(ended, w.arrays[w.current])

\* the extension with an empty first conversation
NewChatInit ==
    /\ Bench
    /\ host = "ext"
    /\ sse = SseIdle
    /\ acc = AccIdle
    /\ ws = [on |-> TRUE,
             arrays |-> [c \in ChatIds |-> <<>>],
             current |-> 1,
             activeConversationId |-> 0,
             history |-> <<>>,
             turns |-> [l \in TurnIds |-> IdleTurn],
             nTurns |-> 0,
             controller |-> 0,
             aborted |-> {}]

\* what the handlers of this section leave alone
ChatFrame ==
    /\ UNCHANGED <<host, stubborn, sse, acc, modeMsgs, loops, nLoops, fuel,
                   turnsLeft, oddLeft, uiLeft>>
    /\ UNCHANGED logVars
    /\ UNCHANGED extVars
    /\ UNCHANGED webVars

\* case 'sendMessage': the running request is aborted, the user message is
\* pushed to the current transcript and the loop starts on that array
ChatSend ==
    /\ host = "ext" /\ ws.on
    /\ ws.nTurns < MaxTurns
    /\ LET l == ws.nTurns + 1
       IN  ws' = [ws EXCEPT
                    !.nTurns = l,
                    !.aborted = IF ws.controller # 0 THEN @ \cup {ws.controller} ELSE @,
                    !.controller = l,
                    !.arrays[ws.current] =
                        Append(@, Entry("user", TRUE, FALSE, ws.current)),
                    !.turns[l] = [IdleTurn EXCEPT !.pc = "fetch", !.hist = ws.current,
                                                  !.loopCount = 1]]
    /\ ChatFrame

\* one round of _runAgentLoop of turn l: the answer is pushed to `history`,
\* its tool results after it; without a tool call the turn is done, unless
\* an earlier tool result was an error and the corrective note is pushed
ChatRound(l) ==
    /\ host = "ext" /\ ws.on
    /\ ws.turns[l].pc = "fetch"
    /\ l \notin ws.aborted
    /\ \E content \in BOOLEAN : \E hasAction \in BOOLEAN : \E err \in BOOLEAN :
          LET h == ws.turns[l].hist
              c == h
              assistant == Entry("assistant", content, FALSE, c)
              pushed == IF hasAction
                        THEN ws.arrays[h] \o <<assistant, Entry("tool", TRUE, err, c)>>
                        ELSE Append(ws.arrays[h], assistant)
              hadError == \E k \in 1..Len(pushed) : pushed[k].role = "tool" /\ pushed[k].err
              retry == ~hasAction /\ hadError /\ ws.turns[l].loopCount < RetryRounds
              w == [ws EXCEPT !.arrays[h] =
                                  IF retry
                                  THEN Append(pushed, Entry("system", TRUE, FALSE, c))
                                  ELSE pushed]
          IN  /\ (hasAction \/ retry) => ws.turns[l].loopCount < MaxLoops
              /\ ~hasAction => ~err
              /\ ws' = IF hasAction \/ retry
                       THEN [w EXCEPT !.turns[l].loopCount = @ + 1]
                       ELSE AfterLoop(w, l, "done")
    /\ ChatFrame

\* the fetch of an aborted turn throws AbortError: the loop returns
ChatAborted(l) ==
    /\ host = "ext" /\ ws.on
    /\ ws.turns[l].pc = "fetch"
    /\ l \in ws.aborted
    /\ ws' = AfterLoop(ws, l, "aborted")
    /\ ChatFrame

\* newChat(): _currentTranscript = [], _activeConversationId = undefined
NewChat ==
    /\ host = "ext" /\ ws.on
    /\ ws.current <= MaxChats
    /\ ws' = [ws EXCEPT !.current = @ + 1,
                        !.activeConversationId = 0,
                        !.turns = [l \in TurnIds |->
                                     IF ws.turns[l].pc = "fetch"
                                     THEN [ws.turns[l] EXCEPT !.crossed = TRUE]
                                     ELSE ws.turns[l]]]
    /\ ChatFrame

NewChatNext ==
    \/ ChatSend
    \/ \E l \in TurnIds : ChatRound(l)
    \/ \E l \in TurnIds : ChatAborted(l)
    \/ NewChat

\* ------------------------------------------- a chat request with a history
\* the messages a client can put into `history`
HistoryMessages ==
    {Msg("user", "user", <<>>, 0, FALSE), Msg("assistant", "text", <<>>, 0, FALSE)}

\* the server before a request whose body carries some history
ChatInit ==
    /\ Boot
    /\ turnsLeft = 1 /\ fuel = 1 /\ oddLeft = 0 /\ uiLeft = 0 /\ stubborn = FALSE
    /\ sse = SseIdle
    /\ acc = AccIdle
    /\ \E n \in 0..MaxHistory : \E history \in [1..n -> HistoryMessages] :
          ws = [on |-> TRUE, history |-> history, supplied |-> history]

\* POST /api/agent/chat with body {message, context, history}
ChatWithHistory ==
    /\ host = "web"
    /\ ws.on
    /\ AgentChat("user", ws.history, TRUE)
    /\ UNCHANGED <<host, stubborn, acc, ws, sse, modeMsgs, oddLeft, uiLeft, messages,
                   isLoading, currentResponse, pendingApproval, approveCalls>>
    /\ UNCHANGED logVars
    /\ UNCHANGED extVars

ChatNext == ChatWithHistory

\* the ids and commands another HTTP client may send
ForeignIds == {e.id : e \in approvalEvents} \cup {0}
ForeignCommands == 0..MaxBatch

Next == ExtNext \/ WebNext

HttpNext ==
    \/ Next
    \/ \E id \in ForeignIds, cmd \in ForeignCommands : ForeignApprove(id, cmd)
    \/ ForeignChat

\* the two front ends driving their hosts
Spec == Init /\ [][Next]_vars

\* what goes on without anybody's help: a tool function returns, the
\* server's execSync returns or is killed at its timeout and the client gets
\* the answer.  A process spawned by the extension exits when it exits.
Progress ==
    \/ \E l \in LoopIds, i \in 1..MaxBatch, ok \in BOOLEAN :
          /\ i <= Len(loops[l].calls)
          /\ loops[l].calls[i].kind # "cmd"
          /\ ExtToolFinish(l, i, ok)
    \/ \E c \in approveCalls, ok \in BOOLEAN : AgentApprove(c, ok)
    \/ \E c \in approveCalls : ApproveReturned(c)

\* the two front ends, with the steps that need nobody taken in time
SpecLive == Init /\ [][Next]_vars /\ WF_vars(Progress)

\* the server reachable by every HTTP client
SpecHttp == Init /\ [][HttpNext]_vars

\* the accumulation of the tool-call deltas of one response
SpecDelta == DeltaInit /\ [][DeltaNext]_vars

\* the file tools called on one workspace
SpecTools == ToolInit /\ [][ToolNext]_vars

\* one directory listing
SpecList == ListInit /\ [][ListNext]_vars

\* one text search
SpecSearch == SearchInit /\ [][SearchNext]_vars

\* conversations started, continued and left with newChat
SpecNewChat == NewChatInit /\ [][NewChatNext]_vars

\* the rounds of one chat request and its message list
SpecRounds == RoundInit /\ [][RoundNext]_vars

\* edits proposed, approved and rejected
SpecEdits == EditInit /\ [][EditNext]_vars

\* one chat request with a supplied history
SpecChat == ChatInit /\ [][ChatNext]_vars

\* a stream decoder reading one response body
SpecSse == SseInit /\ [][SseNext]_vars

\* ================================================================ properties
\* the spawns recorded for the approval request with this id
SpawnsOf(id) == {i \in 1..Len(spawnLog) : spawnLog[i].id = id}

\* the request with this id was answered by a rejection while it was waiting
Rejected(id) == \E d \in decisions : d.id = id /\ d.open /\ ~d.choice

\* the conversation history of the host
History == IF host = "ext" THEN transcript ELSE messages

\* C1: in the server host and in the extension in 'secure' mode a process is
\* spawned for a command only if an approval-required event carrying that
\* command was emitted and an approving decision for that request was received
C1_SpawnOnlyAfterApproval ==
    \A i \in 1..Len(spawnLog) :
        (host = "web" \/ spawnLog[i].mode = "secure") =>
            /\ [id |-> spawnLog[i].id, cmd |-> spawnLog[i].cmd] \in approvalEvents
            /\ \E d \in decisions : d.id = spawnLog[i].id /\ d.choice

C3_DecidedOnce ==
    \A e \in approvalEvents :
        /\ Cardinality(SpawnsOf(e.id)) <= 1
        /\ Rejected(e.id) => SpawnsOf(e.id) = {}

\* C4: the mode is 'secure' unless a setSecurityMode message with 'full' was
\* received, the mode is persisted on every change, and in 'secure' mode
\* every run_terminal_cmd call goes through the approval gate
C4_AutopilotOptIn ==
    /\ securityMode = "full" => "full" \in modeMsgs
    /\ globalMode = securityMode
    /\ \A i \in 1..Len(spawnLog) :
          spawnLog[i].via = "autopilot" => spawnLog[i].mode = "full"
    /\ \A l \in LoopIds : \A i \in 1..Len(loops[l].tasks) :
          (host = "ext" /\ loops[l].pc = "tools" /\ loops[l].calls[i].kind = "cmd"
              /\ loops[l].tasks[i].st = "waiting") =>
             [id |-> loops[l].tasks[i].aid, cmd |-> loops[l].calls[i].cmd]
                 \in approvalEvents

\* a command ran without the gate after the mode was set to 'full', and the
\* mode was then set back to 'secure'
C4_Witness ==
    /\ securityMode = "secure"
    /\ globalMode = "secure"
    /\ modeMsgs = Modes
    /\ \E i \in 1..Len(spawnLog) :
          spawnLog[i].via = "autopilot" /\ spawnLog[i].mode = "full"

\* C5: a turn never sends a 16th model request; for a model that answers
\* every request with one plain tool call the turn sends exactly 15 requests
\* and then ends with a done event
C5_RoundCap ==
    \A l \in LoopIds :
        /\ loops[l].sent <= maxLoops
        /\ (loops[l].plain /\ loops[l].outcome = "done") =>
              loops[l].sent = maxLoops /\ loops[l].doneEvents >= 1
        /\ (loops[l].plain /\ loops[l].answered = maxLoops /\ loops[l].pc # "tools") =>
              loops[l].pc = "end" /\ loops[l].outcome = "done"

\* a turn of plain tool calls has reached the cap and has ended
C5_Witness ==
    \E l \in LoopIds :
        /\ loops[l].plain
        /\ loops[l].answered = maxLoops
        /\ loops[l].sent = maxLoops
        /\ loops[l].outcome = "done"
        /\ loops[l].doneEvents >= 1

\* C6: after a round whose stream produced no tool call the turn has ended:
\* no further model request is sent
C6_NoToolCallEndsTurn ==
    \A l \in LoopIds :
        (loops[l].answered > 0 /\ loops[l].lastN = 0) => loops[l].pc = "end"

\* C7: in a batch with a run-command call waiting for approval no call after
\* it is started
C7_BatchStopsAtCommand ==
    \A l \in LoopIds : \A i, j \in 1..Len(loops[l].tasks) :
        (i < j /\ loops[l].calls[i].kind = "cmd" /\ loops[l].tasks[i].st = "waiting")
            => loops[l].tasks[j].st = "skipped"

\* C8: once an approval-required event was emitted in a turn, the loop of
\* that turn sends no further model request
C8_LoopPausesAtApproval ==
    [][\A l \in LoopIds :
          loops[l].approvalSeen => loops'[l].sent = loops[l].sent]_vars

\* C9: after a rejection the turn makes no further model request, and a tool
\* message recording the rejection for that tool call is in the history
C9_RejectionRecorded ==
    \A l \in LoopIds :
        loops[l].rejectedAt >= 0 =>
            /\ loops[l].sent = loops[l].rejectedAt
            /\ ((host = "web" \/ loops[l].pc # "tools") /\ loops[l].outcome # "killed") =>
                  \E k \in 1..Len(History) :
                      /\ History[k].role = "tool"
                      /\ History[k].id = loops[l].rejected
                      /\ History[k].err

\* C10: when the approved command's result comes back to the web client, the
\* history ends with a tool message carrying the approved toolCallId, and
\* exactly one agent request is started, whose history contains that tool
\* message and whose user message is the injected note
C10_ResumeAfterApproval ==
    [][\A c \in approveCalls :
          ApproveReturned(c) =>
             /\ messages'[Len(messages')].role = "tool"
             /\ messages'[Len(messages')].id = c.id
             /\ [id |-> c.id, choice |-> TRUE, open |-> TRUE] \in decisions
             /\ nLoops' = nLoops + 1
             /\ \A l \in LoopIds : l # nLoops' => loops'[l] = loops[l]
             /\ LET m == loops'[nLoops'].msgs
                IN  /\ loops'[nLoops'].sent = 1
                    /\ m[Len(m)].role = "user" /\ m[Len(m)].text = "note"
                    /\ \E k \in 1..(Len(m) - 1) :
                          m[k].role = "tool" /\ m[k].id = c.id]_vars

\* an approved command has run and the agent was resumed with its result
C10_Witness ==
    \E l \in LoopIds : \E k \in 2..Len(loops[l].msgs) :
        /\ host = "web"
        /\ loops[l].msgs[k].text = "note"
        /\ loops[l].msgs[k - 1].role = "tool"
        /\ loops[l].msgs[k - 1].id \in {spawnLog[i].id : i \in 1..Len(spawnLog)}
        /\ messages # <<>> /\ messages[Len(messages)].id = loops[l].msgs[k - 1].id

\* the tool message at position k carries an id of the tool calls of the
\* most recent assistant message before it
Linked(ms, k) ==
    \E j \in 1..(k - 1) :
        /\ ms[j].role = "assistant"
        /\ \A i \in (j + 1)..(k - 1) : ms[i].role # "assistant"
        /\ ms[k].id \in Range(ms[j].calls)

WellLinked(ms) == \A k \in 1..Len(ms) : ms[k].role = "tool" => Linked(ms, k)

\* C11: in every message list sent to the model and in every stored
\* transcript each tool message carries a tool call id emitted in the tool
\* calls of the most recent assistant message preceding it
C11_ToolMessagesLinked ==
    /\ WellLinked(transcript)
    /\ WellLinked(messages)
    /\ \A l \in LoopIds : WellLinked(loops[l].msgs)

\* every tool call of every assistant message of the list has its tool message
AllAnswered(ms) ==
    \A j \in 1..Len(ms) : \A c \in 1..Len(ms[j].calls) :
        \E k \in (j + 1)..Len(ms) : ms[k].role = "tool" /\ ms[k].id = ms[j].calls[c]

\* C12: whenever a model request is sent, the message list holds one tool
\* message for every tool call of the assistant messages in it
C12_ToolResultsBeforeRequest ==
    [][\A l \in LoopIds :
          loops'[l].sent > loops[l].sent =>
             AllAnswered(IF host = "ext" THEN transcript' ELSE loops'[l].msgs)]_vars

\* C13: after a stopGeneration message a turn that was stopped while it
\* waited for the response, read the stream, executed tools or waited for an
\* approval sends no further model request, and the cancellation does not
\* surface as an error
C13_StopEndsTurn ==
    \A l \in LoopIds :
        loops[l].stoppedAt >= 1 =>
            /\ loops[l].sent = loops[l].stoppedAt
            /\ loops[l].errorEvents = 0

\* C14: the result of a tool call that was running when the stop arrived is
\* not appended to the transcript
C14_StoppedResultsDiscarded ==
    \A l \in LoopIds : \A k \in 1..Len(transcript) :
        transcript[k].role = "tool" => transcript[k].id \notin loops[l].discard

\* C15: when a turn waiting on a command approval is aborted (stopGeneration
\* or a new sendMessage), its entry leaves the pending table
C15_NoPendingAfterAbort ==
    [][\A id \in DOMAIN pendingApprovals :
          pendingApprovals[id].loop \in (aborted' \ aborted) =>
              id \notin DOMAIN pendingApprovals']_vars

\* C16: in the extension at most one agent loop is active: once a newer turn
\* has started, the loop of an older turn sends no model request
C16_OneLoopAtATime ==
    [][\A l \in LoopIds :
          (host = "ext" /\ l < nLoops) => loops'[l].sent = loops[l].sent]_vars

\* C17: the stats in the done event of a chat request are the stat entries
\* of that request's own tool executions
C17_StatsPerRequest ==
    \A l \in LoopIds :
        (host = "web" /\ loops[l].outcome = "done") =>
            loops[l].doneStats = loops[l].stats

\* what a decoder has produced: the content deltas and the tool calls
Output(st) == [content |-> st.content, tools |-> st.tools]

\* C18: however a stream is cut into chunks, once it is read the decoder has
\* produced the content deltas and tool calls it produces for the stream
\* delivered as a single chunk
C18_SplitInvariance ==
    (sse.on /\ sse.chunks = <<>>) =>
        Output(sse.st) = Output(ReadChunk(host, SseStart, sse.whole))

\* C19: a tool call whose arguments are not valid JSON fails only that call:
\* it gets an error result, the other calls of the batch are executed, and no
\* error event ends the turn
C19_BadArgumentsFailOneCall ==
    \A l \in LoopIds :
        (\E i \in 1..Len(loops[l].calls) : loops[l].calls[i].kind = "bad") =>
            /\ loops[l].errorEvents = 0
            /\ \A i \in 1..Len(loops[l].calls) :
                  IF loops[l].calls[i].kind = "bad"
                  THEN loops[l].tasks[i].st = "err"
                  ELSE loops[l].tasks[i].st # "skipped"

IsPrefix(a, b) == Len(a) <= Len(b) /\ SubSeq(b, 1, Len(a)) = a

\* C20: when the model endpoint fails, exactly one error event is emitted,
\* the turn sends no further model request, and the history keeps every
\* message it held before the failure
C20_EndpointFailure ==
    [][\A l \in LoopIds :
          /\ (loops'[l].outcome = "error" /\ loops[l].outcome # "error") =>
                /\ loops'[l].errorEvents = loops[l].errorEvents + 1
                /\ loops'[l].sent = loops[l].sent
                /\ loops'[l].pc = "end"
                /\ IsPrefix(History, History')
          /\ loops[l].outcome = "error" =>
                /\ loops'[l].sent = loops[l].sent
                /\ loops'[l].errorEvents = loops[l].errorEvents
                /\ loops'[l].pc = "end"]_vars

\* a model request failed: one error event, and the user's message is kept
C20_Witness ==
    \E l \in LoopIds :
        /\ loops[l].outcome = "error"
        /\ loops[l].answered < loops[l].sent
        /\ loops[l].errorEvents = 1
        /\ \E k \in 1..Len(History) : History[k].role = "user"

\* the deltas with index i, in arrival order
FragmentsOf(i) == SelectSeq(acc.seen, LAMBDA d : d.index = i)

RECURSIVE ConcatNames(_)
ConcatNames(ds) == IF ds = <<>> THEN <<>> ELSE Head(ds).name \o ConcatNames(Tail(ds))

RECURSIVE ConcatArguments(_)
ConcatArguments(ds) ==
    IF ds = <<>> THEN <<>> ELSE Head(ds).arguments \o ConcatArguments(Tail(ds))

\* the last non-empty id of the deltas, "" when there is none
RECURSIVE LastId(_)
LastId(ds) ==
    IF ds = <<>> THEN ""
    ELSE IF ds[Len(ds)].id # "" THEN ds[Len(ds)].id
    ELSE LastId(SubSeq(ds, 1, Len(ds) - 1))

\* C29: after any sequence of tool-call deltas, the call held at index i
\* has as name and arguments the concatenation, in arrival order, of the
\* name and arguments fragments of the deltas with index i, whatever deltas
\* of other indexes came in between, and as id the last non-empty id
\* received for index i.
C29_DeltasAccumulatedByIndex ==
    acc.on =>
        \A i \in Indices :
            LET ds == FragmentsOf(i)
                tc == acc.toolCalls[i]
            IN  /\ tc.held <=> ds # <<>>
                /\ tc.held => /\ tc.name = ConcatNames(ds)
                              /\ tc.arguments = ConcatArguments(ds)
                              /\ tc.id = LastId(ds)

\* two fragments of index 0 with a delta of index 1 between them, and a
\* second id for index 0
C29_Witness ==
    /\ acc.on
    /\ Len(acc.seen) = 3
    /\ acc.seen[1].index = 0 /\ acc.seen[2].index = 1 /\ acc.seen[3].index = 0
    /\ acc.seen[1].id = "x" /\ acc.seen[3].id = "y"
    /\ acc.toolCalls[0].id = "y"
    /\ acc.toolCalls[0].arguments = <<"p", "q">>
    /\ acc.toolCalls[1].held

\* a data line whose payload reaches JSON.parse and is not valid JSON
Malformed(h, line) ==
    /\ line # <<>> /\ line[1] = "d"
    /\ Tail(line) \notin {<<"a">>, <<"t">>}
    /\ (h = "ext" => Tail(line) # <<"X">>)

\* the positions of stream s, from position `from` on, that belong to a
\* malformed line (its line feed included)
RECURSIVE BadPositions(_, _, _)
BadPositions(h, s, from) ==
    IF \E q \in from..Len(s) : s[q] = "n"
    THEN LET q == CHOOSE k \in from..Len(s) :
                     s[k] = "n" /\ \A j \in from..(k - 1) : s[j] # "n"
         IN  (IF Malformed(h, SubSeq(s, from, q - 1)) THEN from..q ELSE {})
                \cup BadPositions(h, s, q + 1)
    ELSE {}

\* the characters of s at the positions of `keep`, in order
RECURSIVE Pick(_, _, _)
Pick(s, keep, i) ==
    IF i > Len(s) THEN <<>>
    ELSE (IF i \in keep THEN <<s[i]>> ELSE <<>>) \o Pick(s, keep, i + 1)

\* the chunks of a delivery of s without the positions of `bad`
RECURSIVE WithoutPositions(_, _, _)
WithoutPositions(chunks, bad, offset) ==
    IF chunks = <<>> THEN <<>>
    ELSE LET c == Head(chunks)
         IN  <<Pick(c, {i \in 1..Len(c) : offset + i \notin bad}, 1)>>
                \o WithoutPositions(Tail(chunks), bad, offset + Len(c))

RECURSIVE ReadAll(_, _, _)
ReadAll(h, st, chunks) ==
    IF chunks = <<>> THEN st
    ELSE ReadAll(h, ReadChunk(h, st, Head(chunks)), Tail(chunks))

\* C30: a data line that is not valid JSON is discarded and the stream is
\* read on: once the stream is read, the decoder has produced what it
\* produces for the same delivery with the malformed lines taken out
C30_MalformedLineSkipped ==
    (sse.on /\ sse.chunks = <<>>) =>
        Output(sse.st) =
            Output(ReadAll(host, SseStart,
                           WithoutPositions(sse.delivery,
                                            BadPositions(host, sse.whole, 1), 0)))

\* a malformed line was read and the data line after it was decoded
C30_Witness ==
    /\ sse.on /\ sse.chunks = <<>>
    /\ sse.whole = <<"d", "j", "n", "d", "a", "n">>
    /\ Len(sse.delivery) = 2
    /\ sse.st.content = <<"a">>

\* the call made last is an edit of a file that was there
EditOfFile ==
    /\ ws.on
    /\ ws.call.name \in {"editFile", "search_replace"}
    /\ ws.call.path # NoPath
    /\ Resolve(ws.call.path) \in Locs
    /\ ws.before[Resolve(ws.call.path)] # Absent
    /\ DirOf(Resolve(ws.call.path)) \in FixedDirs \cup ws.dirsBefore

\* the positions at which text `old` starts in `content`
Occurrences(content, old) ==
    {i \in 1..(Len(content) - Len(old) + 1) :
        \A k \in 1..Len(old) : content[i + k - 1] = old[k]}

\* C22: an edit whose old text does not occur in the file returns an error
\* and writes nothing: the files are what they were before the call
C22_AbsentOldTextNoWrite ==
    (/\ EditOfFile
     /\ Occurrences(ws.before[Resolve(ws.call.path)], Str(ws.call.oldText)) = {})
        => /\ ws.result = "error"
           /\ ws.writes = ws.writesBefore
           /\ ws.files = ws.before

\* an edit with the old text "c" was made on a file holding "aba"
C22_Witness ==
    /\ EditOfFile
    /\ ws.call.oldText = <<"c">>
    /\ ws.before[<<"w", "a">>] = <<"a", "b", "a">>
    /\ ws.call.path = PathA
    /\ ws.result = "error"

\* C23: an edit whose old text occurs twice or more replaces the first
\* occurrence only: the text before it and the text after it, further
\* occurrences included, are as they were, and a new text without `$` stands
\* between them as it is
C23_FirstOccurrenceOnly ==
    (/\ EditOfFile
     /\ Cardinality(Occurrences(ws.before[Resolve(ws.call.path)],
                                Str(ws.call.oldText))) >= 2)
        => LET was == ws.before[Resolve(ws.call.path)]
               now == ws.files[Resolve(ws.call.path)]
               old == Str(ws.call.oldText)
               occ == Occurrences(was, old)
               i == CHOOSE x \in occ : \A y \in occ : x <= y
               rest == Len(was) - (i + Len(old) - 1)
           IN  /\ ws.writes = ws.writesBefore + 1
               /\ Len(now) >= (i - 1) + rest
               /\ SubSeq(now, 1, i - 1) = SubSeq(was, 1, i - 1)
               /\ SubSeq(now, Len(now) - rest + 1, Len(now))
                     = SubSeq(was, Len(was) - rest + 1, Len(was))
               /\ ("$" \notin Range(Str(ws.call.newText))
                     => SubSeq(now, i, Len(now) - rest) = Str(ws.call.newText))
               /\ \A f \in Locs : f # Resolve(ws.call.path) => ws.files[f] = ws.before[f]

\* "a" was replaced by "c" in a file holding "aba": the file holds "cba"
C23_Witness ==
    /\ EditOfFile
    /\ ws.call.path = PathA
    /\ ws.call.oldText = <<"a">>
    /\ ws.call.newText = <<"c">>
    /\ ws.before[<<"w", "a">>] = <<"a", "b", "a">>
    /\ ws.files[<<"w", "a">>] = <<"c", "b", "a">>
    /\ ws.result = "success"

\* C26: a tool call that lacks a field the schema requires gets an error
\* result and leaves the files and directories of the workspace as they were
C26_MissingFieldRejected ==
    (ws.on /\ ws.call.name # "none" /\ Lacking(ws.call) # {})
        => /\ ws.result = "error"
           /\ ws.files = ws.before
           /\ ws.dirs = ws.dirsBefore

\* C27: no file tool reads, writes or deletes at a place outside the
\* workspace root
C27_InsideWorkspace ==
    ws.on => \A loc \in ws.touched : loc = Root \/ Under(loc, Root)

\* the stat entries of the tool calls a request executed, in execution order
ExecutedEntries(l) ==
    SelectSeq(loops[l].stats, LAMBDA e : e.status \in {"success", "error"})

\* C21: the toolCalls of the done event of a chat request list one entry per
\* tool call the request executed, in execution order, with the status of
\* that call's result, and nothing else
C21_DoneStatsOfRequest ==
    \A l \in LoopIds :
        (host = "web" /\ loops[l].outcome = "done") =>
            loops[l].doneStats = ExecutedEntries(l)

\* entries in the order the claim asks for: directories first, each group
\* by name, and so in every list of children
RECURSIVE WellOrdered(_)
WellOrdered(es) ==
    /\ \A i, j \in 1..Len(es) :
          i < j =>
             \/ es[i].type \in {"folder", "dir"} /\ es[j].type = "file"
             \/ /\ (es[i].type = "file") <=> (es[j].type = "file")
                /\ LocaleRank(es[i].name) < LocaleRank(es[j].name)
    /\ \A i \in 1..Len(es) : WellOrdered(es[i].children)

RECURSIVE NoneIgnored(_)
NoneIgnored(es) ==
    \A i \in 1..Len(es) :
        es[i].name \notin ListIgnore /\ NoneIgnored(es[i].children)

\* C24: a directory listing holds no entry of the ignore set at any depth
\* and has directories before files, each group ordered by name
C24_ListingFilteredAndSorted ==
    (ws.on /\ ws.listed) => NoneIgnored(ws.listing) /\ WellOrdered(ws.listing)

\* the matching lines of the files a search scans, in scanning order
RECURSIVE MatchesIn(_, _)
MatchesIn(items, at) ==
    IF items = <<>> THEN <<>>
    ELSE LET n == Len(items)
             item == items[n]
             here == Append(at, n)
             mine == IF item.skipped \/ ~item.readable THEN <<>>
                     ELSE IF item.kind = "dir" THEN MatchesIn(item.items, here)
                     ELSE IF ~item.named THEN <<>>
                     ELSE LET hits == SelectSeq([i \in 1..Len(item.lines) |-> i],
                                                LAMBDA i : item.lines[i])
                          IN  [j \in 1..Len(hits) |-> [file |-> here, line |-> hits[j]]]
         IN  MatchesIn(SubSeq(items, 1, n - 1), at) \o mine

\* something in the directory cannot be read
RECURSIVE HasUnreadable(_)
HasUnreadable(items) ==
    \E i \in 1..Len(items) : ~items[i].readable \/ HasUnreadable(items[i].items)

\* C25: a search of a readable directory succeeds whatever in it cannot be
\* read, returns at most 20 matches, the first ones in scanning order, and
\* returns every matching line of the scanned files when fewer than 20 match
C25_SearchCapped ==
    (ws.on /\ ws.searched /\ ws.top.readable) =>
        LET all == MatchesIn(ws.top.items, <<>>)
        IN  /\ ws.result = "success"
            /\ Len(ws.results) <= maxResults
            /\ IsPrefix(ws.results, all)
            /\ Len(all) < maxResults => ws.results = all

\* more than 20 lines match and an unreadable file was passed over: 20
\* matches are returned
C25_Witness ==
    /\ ws.on /\ ws.searched /\ ws.result = "success"
    /\ HasUnreadable(ws.top.items)
    /\ Len(MatchesIn(ws.top.items, <<>>)) > maxResults
    /\ Len(ws.results) = maxResults

\* call i of turn l is a command the user approved, and its process runs
RunningCommand(l, i) ==
    /\ host = "ext"
    /\ loops[l].pc = "tools"
    /\ i <= Len(loops[l].tasks)
    /\ loops[l].tasks[i].st = "running"
    /\ loops[l].tasks[i].aid # 0

\* an approveCommand call is at the server
PostedCommand == \E c \in approveCalls : c.st = "posted"

\* C28: the execution of an approved command eventually yields a tool
\* result: the process of the extension does not run for ever (as long as
\* the model endpoint still answers the request that follows the batch),
\* and the server answers the approve request
C28_ApprovedCommandEnds ==
    /\ \A l \in LoopIds : \A i \in 1..MaxBatch :
          RunningCommand(l, i) ~> (~RunningCommand(l, i) \/ fuel = 0)
    /\ PostedCommand ~> ~PostedCommand

\* C38: after a successful edit the file holds the text before the first
\* occurrence of the old text, then the new text as it was given, then the
\* text after that occurrence
C38_NewTextVerbatim ==
    (EditOfFile /\ ws.result = "success") =>
        LET was == ws.before[Resolve(ws.call.path)]
            old == Str(ws.call.oldText)
            occ == Occurrences(was, old)
            i == CHOOSE x \in occ : \A y \in occ : x <= y
        IN  /\ occ # {}
            /\ ws.files[Resolve(ws.call.path)] =
                  SubSeq(was, 1, i - 1) \o Str(ws.call.newText)
                     \o SubSeq(was, i + Len(old), Len(was))

\* C39: a server tool call that returns success: false leaves linesWritten,
\* filesModified and the files as they were, and only a successful writeFile
\* or editFile changes linesWritten or filesModified
C39_FailedCallChangesNothing ==
    (ws.on /\ host = "web" /\ ws.call.name # "none") =>
        /\ ws.result = "error" =>
              /\ ws.linesWritten = ws.linesBefore
              /\ ws.filesModified = ws.modifiedBefore
              /\ ws.files = ws.before
        /\ (ws.linesWritten # ws.linesBefore \/ ws.filesModified # ws.modifiedBefore) =>
              ws.result = "success" /\ ws.call.name \in {"writeFile", "editFile"}

\* C32: the first model request of a chat request holds the system prompt,
\* then the last min(10, n) messages of the supplied history in their order,
\* then the new user message; the supplied history is as it was
C32_LastTenOfHistory ==
    (ws.on /\ nLoops = 1 /\ host = "web") =>
        LET sent == loops[1].msgs
            n == Len(ws.supplied)
            m == IF n < 10 THEN n ELSE 10
        IN  /\ Len(sent) = m + 2
            /\ sent[1].role = "system"
            /\ sent[m + 2] = Msg("user", "user", <<>>, 0, FALSE)
            /\ \A k \in 1..m : sent[1 + k] = ws.supplied[n - m + k]
            /\ ws.history = ws.supplied
            /\ loops[1].sent = 1

\* a history of eleven messages whose first differs from its second was
\* supplied: the request starts with the second
C32_Witness ==
    /\ ws.on /\ nLoops = 1 /\ host = "web"
    /\ Len(ws.supplied) = 11
    /\ ws.supplied[1].role = "user" /\ ws.supplied[2].role = "assistant"
    /\ Len(loops[1].msgs) = 12
    /\ loops[1].msgs[2].role = "assistant"

\* the positions of the transcript that hold the corrective system note
Notes == {k \in 1..Len(transcript) : transcript[k].role = "system" /\ transcript[k].text = "warn"}

\* C31: the corrective system note stands in the history only directly after
\* a round that produced tool calls all of whose executions reported an
\* error: before the note come the results of that round, every one an
\* error, and before them the assistant message that made the calls
C31_NoteAfterFailedRound ==
    host = "ext" =>
        \A k \in Notes :
            \E j \in 1..(k - 1) :
                /\ transcript[j].role = "assistant"
                /\ Len(transcript[j].calls) > 0
                /\ k - 1 - j = Len(transcript[j].calls)
                /\ \A i \in (j + 1)..(k - 1) :
                      transcript[i].role = "tool" /\ transcript[i].err

\* the calls of turn l that wait for a decision of the user
WaitingCalls(l) ==
    IF loops[l].pc = "tools" THEN Waiting(loops[l].tasks) ELSE {}

\* C33: approval requests pending at the same time have distinct ids, and the
\* pending table holds for each of them the invocation that asked, so that a
\* decision resumes exactly the invocation it names
C33_PendingIdsDistinct ==
    host = "ext" =>
        \A l \in 1..nLoops : \A i \in WaitingCalls(l) :
            /\ \A j \in WaitingCalls(l) :
                  loops[l].tasks[j].aid = loops[l].tasks[i].aid => j = i
            /\ loops[l].tasks[i].aid \in DOMAIN pendingApprovals
            /\ pendingApprovals[loops[l].tasks[i].aid] = [loop |-> l, idx |-> i]

\* the files the last handler wrote
Written == {f \in EditLocs : ws.files[f] # ws.filesBefore[f]}

\* C34: in 'secure' mode an edit_file call writes nothing; a file is written
\* only by an approveEdit that names it as the edit_pending event did, or by
\* an approveAll, and then with the content last proposed for it; an edit
\* that was rejected is no longer pending, so that no later approval writes it
C34_EditsWrittenOnApproval ==
    (ws.on /\ ws.op # "none") =>
        /\ (ws.op = "edit_file" /\ ws.modeAt = "secure") => Written = {}
        /\ ws.op # "edit_file" =>
              \A f \in Written :
                  /\ \/ ws.op = "approveAll"
                     \/ ws.op = "approveEdit" /\ ws.file = [abs |-> TRUE, parts |-> f]
                  /\ ws.files[f] = ws.proposedBefore[f]
        /\ \A i \in 1..Len(ws.pendingEdits) :
              ws.proposed[Resolve(ws.pendingEdits[i].key)] # Absent

\* C35: a server round that does not end the turn appends at least one
\* message to the message list of the request, so that the next model
\* request of the turn does not carry the list the one before carried
C35_RoundAppends ==
    (ws.on /\ ws.loop.sent >= 2 /\ ws.loop.pc = "fetch") =>
        /\ ws.added >= 1
        /\ ws.request # ws.previous

\* the terminal events turn l has emitted
TerminalEvents(l) == loops[l].doneEvents + loops[l].errorEvents

\* C36: a turn emits one terminal event, done or error, and emits it last:
\* never a second one, and none while the turn still has rounds to run
C36_OneTerminalEvent ==
    \A l \in 1..nLoops :
        /\ TerminalEvents(l) <= 1
        /\ TerminalEvents(l) = 1 => loops[l].pc = "end"

\* C37: after newChat the current transcript holds only messages of the new
\* conversation; a turn that was running when newChat arrived emits no error
\* event, and its messages are in no history entry of another conversation
C37_NewChatIsolates ==
    ws.on =>
        /\ \A k \in 1..Len(ws.arrays[ws.current]) :
              ws.arrays[ws.current][k].chat = ws.current
        /\ \A l \in TurnIds : ws.turns[l].crossed => ws.turns[l].errorEvents = 0
        /\ \A e \in 1..Len(ws.history) :
              \A k \in 1..Len(ws.history[e].transcript) :
                  ws.history[e].transcript[k].chat = ws.history[e].chat

====
